---- MODULE Spec2Model ----
(***************************************************************************)
(* Model of the crawl pipeline of research-topic:                          *)
(*   agents/web_crawler_agent.py  WebCrawlerAgent (execute,                *)
(*   _crawl_recursive, _fetch_with_retry, _is_valid_url, _extract_links,   *)
(*   _calculate_keyword_relevance) as driven by OrchestratorAgent, which   *)
(*   builds one crawler object and reuses it for every execute call.       *)
(*                                                                         *)
(* The recursion of _crawl_recursive is an explicit stack of frames; the   *)
(* network and the HTML of a page are inputs chosen with \E at the step    *)
(* that consumes them.                                                     *)
(***************************************************************************)
EXTENDS Integers, Sequences, FiniteSets, TLC

\* ------------------------------------------------------------------ bounds
MaxRuns == 2          \* execute calls made on the one crawler object
MaxDepthCfg == 2      \* max_depth is drawn from 0..MaxDepthCfg
MaxPagesCfg == 3      \* max_pages is drawn from 1..MaxPagesCfg

\* ------------------------------------------------------- program constants
max_retries == 3      \* _fetch_with_retry(url, max_retries=3)
NumUserAgents == 4    \* len(self.user_agents)
delay == 1            \* WebCrawlerAgent(delay=1.0)
MaxPossiblePerKeyword == 10   \* max_possible = len(keywords) * 10
ContentCap == 5000    \* text[:5000]
MinContentLen == 100  \* if len(text) > 100

None == "None"

\* -------------------------------------------------------------------- URLs
\* A URL string is represented by the components urlsplit finds in it.
MkUrl(s, n, p) == [scheme |-> s, netloc |-> n, path |-> p]

A1 == MkUrl("http", "a", "/")
A2 == MkUrl("http", "a", "/p")
A3 == MkUrl("http", "a", "/q")
B1 == MkUrl("http", "b", "/")
NoHost == MkUrl("mailto", "", "x")      \* "mailto:x"
NoScheme == MkUrl("", "a", "/")         \* "//a/"
Relative == MkUrl("", "", "p")          \* "p"
BadV6 == MkUrl("http", "[", "/")        \* "http://[/"  (urlparse raises ValueError)

URLS == {A1, A2, A3, B1, NoHost, NoScheme, Relative, BadV6}

\* urljoin(base_url, href) with a well-formed base always yields a scheme
ResolvedURLS == {A1, A2, A3, B1, NoHost}

\* urlparse(url): the parts, or ValueError for an unbalanced IPv6 bracket
urlparse(url) ==
    IF url.netloc = "["
    THEN [raised |-> TRUE, scheme |-> "", netloc |-> ""]
    ELSE [raised |-> FALSE, scheme |-> url.scheme, netloc |-> url.netloc]

is_valid_url_any(url) ==
    LET result == urlparse(url)
    IN  IF result.raised THEN FALSE
        ELSE result.scheme # "" \/ result.netloc # ""

\* _is_valid_url: all([result.scheme, result.netloc]); False on any exception
is_valid_url(url) ==
    LET result == urlparse(url)
    IN  IF result.raised THEN FALSE
        ELSE result.scheme # "" /\ result.netloc # ""

Min(a, b) == IF a <= b THEN a ELSE b

\* ------------------------------------------------------------- page inputs
Words == {"ai", "ml", "dl"}
KeywordLists == {<<>>, <<"ai", "ml">>}

\* str.lower()
Lower(w) == IF w = "AI" THEN "ai" ELSE w

\* select_one / find returned None
Absent == -1

\* the HTML a server holds, after the unwanted tags are removed: the length
\* of get_text() of the first match of each selector of content_tags
\* ('article', 'main', 'div[class*="content"]', 'div[class*="article"]') and
\* of <body>, Absent when there is no such element
MkHtml(article, main, div_content, div_article, body) ==
    [content_tags |-> <<article, main, div_content, div_article>>,
     body |-> body]

page_html(url) ==
    CASE url = A1 -> MkHtml(9000, Absent, Absent, Absent, 9500)
      [] url = A2 -> MkHtml(Absent, Absent, 100, 101, 300)
      [] url = A3 -> MkHtml(Absent, 50, Absent, Absent, 6000)
      [] OTHER -> MkHtml(Absent, Absent, Absent, Absent, Absent)

extract_content_body_uncut(html) ==
    LET hits == {i \in 1..Len(html.content_tags) :
                    html.content_tags[i] > MinContentLen}
        first == CHOOSE i \in hits : \A j \in hits : i <= j
    IN  IF hits # {} THEN Min(html.content_tags[first], ContentCap)
        ELSE IF html.body # Absent THEN html.body
        ELSE 0

\* _extract_content: the length of the text it returns
extract_content(html) ==
    LET hits == {i \in 1..Len(html.content_tags) :
                    html.content_tags[i] > MinContentLen}
        first == CHOOSE i \in hits : \A j \in hits : i <= j
    IN  IF hits # {} THEN Min(html.content_tags[first], ContentCap)
        ELSE IF html.body # Absent THEN Min(html.body, ContentCap)
        ELSE 0

\* a parsed page: occurrences of each word in the lowercased title and body
\* text, and the number of words of title and text together
MkDoc(tai, tml, cai, cml, n_words) ==
    [title |-> [w \in Words |->
                   IF w = "ai" THEN tai ELSE IF w = "ml" THEN tml ELSE 0],
     content |-> [w \in Words |->
                     IF w = "ai" THEN cai ELSE IF w = "ml" THEN cml ELSE 0],
     n_words |-> n_words]

\* what the server holds at each URL: "ai" once in the title and "ml" twice in
\* the body, "ai" once in a long body, or a page without any query word
page_doc(url) ==
    CASE url = A1 -> MkDoc(1, 0, 0, 2, 800)
      [] url = A3 -> MkDoc(0, 0, 1, 0, 1000)
      [] url = A2 -> MkDoc(0, 0, 0, 0, 20)
      [] OTHER -> MkDoc(0, 0, 0, 0, 2)

\* the resolved anchors a page can carry: none; a self-link or a cycle with
\* a link to another host; a forward link with a mailto: link
HrefSets == {{}, {A1, A2, B1}, {A2, A3, NoHost}}

SeedLists ==
    {<<>>, <<A1, B1>>, <<NoHost, A2, A2>>, <<NoScheme, Relative, BadV6>>}

\* a server that may put any of the anchor sets in any page
AnyWeb == [u \in URLS |-> HrefSets]

\* a server whose pages are fixed: the anchors of A1, A2, A3 and B1
MkWeb(a1, a2, a3, b1) ==
    [u \in URLS |->
        IF u = A1 THEN {a1} ELSE IF u = A2 THEN {a2}
        ELSE IF u = A3 THEN {a3} ELSE IF u = B1 THEN {b1} ELSE {{}}]

\* A1 links to A2, A2 to A3 and A3 back to A1; or A1 links to A2 and A3,
\* A3 back to A1, and B1 to the other host
Webs ==
    {MkWeb({A1, A2, B1}, {A2, A3, NoHost}, {A1, A2, B1}, {}),
     MkWeb({A2, A3, NoHost}, {}, {A1, A2, B1}, {A1, A2, B1})}

\* seeds on one host, the second linked from the first; seeds on two hosts
\* after a malformed one
LinkedSeedLists == {<<A1, A2>>, <<NoHost, A3, B1>>}

\* what one session.get + raise_for_status can do: a status code or an exception
Statuses == {200, 403, 404, 429, 500, 501}
Exceptions == {"SSLError", "Timeout", "ConnectionError", "Exception"}
Outcomes ==
    [kind : {"http"}, code : Statuses] \cup [kind : Exceptions, code : {0}]

RECURSIVE SumSeq(_)
SumSeq(s) == IF s = <<>> THEN 0 ELSE Head(s) + SumSeq(Tail(s))

RECURSIVE SumOver(_, _)
SumOver(f, S) ==
    IF S = {} THEN 0
    ELSE LET x == CHOOSE y \in S : TRUE IN f[x] + SumOver(f, S \ {x})

\* -------------------------------------------------------------------- state
VARIABLES
    max_depth,          \* self.max_depth
    max_pages,          \* self.max_pages
    visited_urls,       \* self.visited_urls
    results,            \* self.results : url -> PageRecord
    current_ua_index,   \* self.current_ua_index
    status,             \* execute: "idle", "running", "returned", "raised"
    urls,               \* input_data['urls'] of the running call
    keywords,           \* input_data['keywords'] of the running call
    seedIdx,            \* position of `for url in urls`
    stack,              \* frames of _crawl_recursive, innermost first
    result,             \* value returned by the last execute call
    runs,               \* execute calls made so far
    gets,               \* session.get calls made during the current call
    fetch_calls,        \* _fetch_with_retry calls per URL, current call
    skipped,            \* nodes given up (fetch None or except), current call
    event,              \* what the last step did
    slept,              \* the time.sleep performed by the last step
    got,                \* what the session.get of the last step did
    web                 \* the anchor sets the server may put in each URL's page

vars == <<max_depth, max_pages, visited_urls, results, current_ua_index,
          status, urls, keywords, seedIdx, stack, result, runs, gets,
          fetch_calls, skipped, event, slept, got, web>>

\* SimilarityAgent and the interpreter process it runs in
VARIABLES
    similarity_threshold,   \* self.similarity_threshold
    hash_order,             \* iteration order of a set of str in this process
    sim_input,              \* input_data of the last SimilarityAgent.execute
    sim_result,             \* value returned by the last execute call
    sim_prev_input,         \* input_data of the call before
    sim_prev,               \* value returned by the call before
    sim_calls               \* execute calls made so far

scorer_vars == <<similarity_threshold, hash_order, sim_input, sim_result,
                 sim_prev_input, sim_prev, sim_calls>>

\* one run of the pipeline: OrchestratorAgent.execute or run_research_workflow
VARIABLES
    entry,              \* the entry point called: "none" before the call
    pipe_pc,            \* the stage the run is at
    in_urls,            \* the urls argument
    in_query,           \* the query_keywords argument
    st_crawled_data,    \* crawled_data (the ResearchState key or the local)
    st_filtered_data,   \* filtered_data
    st_groups,          \* groups
    st_report_path,     \* report_path
    st_errors,          \* state['errors'], reduced with operator.add
    st_success,         \* state['success']
    pipe_result         \* the value the entry point returns

pipe_vars == <<entry, pipe_pc, in_urls, in_query, st_crawled_data,
               st_filtered_data, st_groups, st_report_path, st_errors,
               st_success, pipe_result>>

\* the state of the components a specification leaves alone
outside_crawler == <<scorer_vars, pipe_vars>>

all_vars == <<vars, scorer_vars, pipe_vars>>

NoSleep == [kind |-> "none", secs |-> 0]
NoCalls == [u \in URLS |-> 0]

\* no SimilarityAgent has been built
ScorerIdle ==
    /\ similarity_threshold = None
    /\ hash_order = <<>>
    /\ sim_input = None
    /\ sim_result = None
    /\ sim_prev_input = None
    /\ sim_prev = None
    /\ sim_calls = 0

\* no entry point of the pipeline has been called
PipeIdle ==
    /\ entry = "none"
    /\ pipe_pc = "idle"
    /\ in_urls = <<>>
    /\ in_query = <<>>
    /\ st_crawled_data = None
    /\ st_filtered_data = None
    /\ st_groups = None
    /\ st_report_path = None
    /\ st_errors = <<>>
    /\ st_success = TRUE
    /\ pipe_result = None

\* WebCrawlerAgent.__init__, the server's pages being one of `webs`
CrawlerInit(webs) ==
    /\ max_depth \in 0..MaxDepthCfg
    /\ max_pages \in 1..MaxPagesCfg
    /\ visited_urls = {}
    /\ results = <<>>
    /\ current_ua_index = 0
    /\ status = "idle"
    /\ urls = <<>>
    /\ keywords = <<>>
    /\ seedIdx = 1
    /\ stack = <<>>
    /\ result = None
    /\ runs = 0
    /\ gets = 0
    /\ fetch_calls = NoCalls
    /\ skipped = 0
    /\ event = "init"
    /\ slept = NoSleep
    /\ got = None
    /\ web \in webs
    /\ ScorerIdle
    /\ PipeIdle

Init == CrawlerInit({AnyWeb})

\* ------------------------------------------------------------ pure helpers

calculate_keyword_relevance_default_one(doc, kws) ==
    LET total_score ==
            SumSeq([i \in 1..Len(kws) |->
                       3 * doc.title[Lower(kws[i])] + doc.content[Lower(kws[i])]])
        max_possible == Len(kws) * MaxPossiblePerKeyword
    IN  IF kws = <<>> \/ total_score = 0 THEN [num |-> 1, den |-> 1]
        ELSE [num |-> Min(total_score, max_possible), den |-> max_possible]

\* _calculate_keyword_relevance, as the fraction num/den
\*   text = title + " " + content, so text.count sees the title's occurrences too
calculate_keyword_relevance(doc, kws) ==
    IF kws = <<>> THEN [num |-> 1, den |-> 1]
    ELSE LET title_count(k) == doc.title[Lower(k)] * 2
             content_count(k) == doc.title[Lower(k)] + doc.content[Lower(k)]
             total_score ==
                 SumSeq([i \in 1..Len(kws) |->
                            title_count(kws[i]) + content_count(kws[i])])
             max_possible == Len(kws) * MaxPossiblePerKeyword
         IN  [num |-> Min(total_score, max_possible), den |-> max_possible]

extract_links_any_host(hrefs, base_url) == hrefs

\* _extract_links: resolved hrefs on the host of base_url, duplicates removed
extract_links(hrefs, base_url) ==
    LET base_domain == urlparse(base_url).netloc
    IN  {full_url \in hrefs : urlparse(full_url).netloc = base_domain}

PageRecord_child_depth(doc, content_len, relevance, depth) ==
    [title |-> doc.title, content |-> doc.content, n_words |-> doc.n_words,
     content_len |-> content_len, relevance |-> relevance, depth |-> depth + 1]

\* the dict stored at self.results[url]; title and content are kept as the
\* occurrences of the query words in them, their word count and the length of
\* content
PageRecord(doc, content_len, relevance, depth) ==
    [title |-> doc.title, content |-> doc.content, n_words |-> doc.n_words,
     content_len |-> content_len, relevance |-> relevance, depth |-> depth]

Positive_at_least_half(rel) == 2 * rel.num >= rel.den

\* if relevance > 0
Positive(rel) == rel.num > 0

ReturnsAtOnce_revisits(url, depth) ==
    \/ depth > max_depth
    \/ Cardinality(visited_urls) >= max_pages
    \/ ~is_valid_url(url)

ReturnsAtOnce_off_by_one(url, depth) ==
    \/ depth > max_depth
    \/ Cardinality(visited_urls) > max_pages
    \/ url \in visited_urls
    \/ ~is_valid_url(url)

ReturnsAtOnce_depth_reached(url, depth) ==
    \/ depth >= max_depth
    \/ Cardinality(visited_urls) >= max_pages
    \/ url \in visited_urls
    \/ ~is_valid_url(url)

\* the two early returns of _crawl_recursive
ReturnsAtOnce(url, depth) ==
    \/ depth > max_depth
    \/ Cardinality(visited_urls) >= max_pages
    \/ url \in visited_urls
    \/ ~is_valid_url(url)

\* response.raise_for_status()
raise_for_status(code) == code >= 400 /\ code < 600

\* requests.Response.__bool__ is Response.ok: false for every 4xx/5xx
ResponseBool(code) == ~raise_for_status(code)

\* status_code = e.response.status_code if e.response else None
status_code_of(code) ==
    IF ResponseBool(code) THEN [isNone |-> FALSE, code |-> code]
    ELSE [isNone |-> TRUE, code |-> 0]

Step(kind, rotate, secs) == [kind |-> kind, rotate |-> rotate, secs |-> secs]

fetch_attempt_reraises(outcome, attempt) ==
    LET more == attempt < max_retries - 1
    IN  IF outcome.kind = "http"
        THEN IF ~raise_for_status(outcome.code) THEN Step("response", FALSE, 0)
             ELSE LET sc == status_code_of(outcome.code)
                  IN  IF sc.isNone
                      THEN IF more THEN Step("retry", TRUE, 2 * (attempt + 1))
                           ELSE Step("none", FALSE, 0)
                      ELSE IF sc.code = 403
                      THEN IF more THEN Step("retry", TRUE, 2 * (attempt + 1))
                           ELSE Step("none", FALSE, 0)
                      ELSE IF sc.code = 429
                      THEN Step("retry", FALSE, 5 * (attempt + 1))
                      ELSE IF sc.code \in {500, 502, 503, 504}
                      THEN IF more THEN Step("retry", FALSE, 3 * (attempt + 1))
                           ELSE Step("none", FALSE, 0)
                      ELSE Step("none", FALSE, 0)
        ELSE IF outcome.kind = "SSLError"
        THEN IF more THEN Step("retry", FALSE, 2) ELSE Step("none", FALSE, 0)
        ELSE IF outcome.kind = "Timeout"
        THEN IF more THEN Step("retry", FALSE, 2) ELSE Step("none", FALSE, 0)
        ELSE IF outcome.kind = "ConnectionError"
        THEN IF more THEN Step("retry", FALSE, 3) ELSE Step("none", FALSE, 0)
        ELSE IF more THEN Step("retry", FALSE, 2) ELSE Step("raise", FALSE, 0)

fetch_attempt_timeout_gives_up(outcome, attempt) ==
    IF outcome.kind = "Timeout" THEN Step("none", FALSE, 0)
    ELSE fetch_attempt_reraises(outcome, attempt)

\* one pass of the body of `for attempt in range(max_retries)`:
\* "response" = return response, "retry" = continue, "none" = return None
fetch_attempt(outcome, attempt) ==
    LET more == attempt < max_retries - 1
    IN  IF outcome.kind = "http"
        THEN IF ~raise_for_status(outcome.code) THEN Step("response", FALSE, 0)
             ELSE LET sc == status_code_of(outcome.code)
                  IN  IF sc.isNone
                      THEN IF more THEN Step("retry", TRUE, 2 * (attempt + 1))
                           ELSE Step("none", FALSE, 0)
                      ELSE IF sc.code = 403
                      THEN IF more THEN Step("retry", TRUE, 2 * (attempt + 1))
                           ELSE Step("none", FALSE, 0)
                      ELSE IF sc.code = 429
                      THEN Step("retry", FALSE, 5 * (attempt + 1))
                      ELSE IF sc.code \in {500, 502, 503, 504}
                      THEN IF more THEN Step("retry", FALSE, 3 * (attempt + 1))
                           ELSE Step("none", FALSE, 0)
                      ELSE Step("none", FALSE, 0)
        ELSE IF outcome.kind = "SSLError"
        THEN IF more THEN Step("retry", FALSE, 2) ELSE Step("none", FALSE, 0)
        ELSE IF outcome.kind = "Timeout"
        THEN IF more THEN Step("retry", FALSE, 2) ELSE Step("none", FALSE, 0)
        ELSE IF outcome.kind = "ConnectionError"
        THEN IF more THEN Step("retry", FALSE, 3) ELSE Step("none", FALSE, 0)
        ELSE IF more THEN Step("retry", FALSE, 2) ELSE Step("none", FALSE, 0)

rotate_user_agent_stays(idx) == idx

\* _rotate_user_agent
rotate_user_agent(idx) == (idx + 1) % NumUserAgents

crawl_except_propagates(stk) == [stack |-> <<>>, status |-> "raised"]

\* `except Exception as e: self.log_error(...)` of _crawl_recursive:
\* the frame that raised returns normally to its caller
crawl_except(stk) == [stack |-> Tail(stk), status |-> "running"]

on_fetch_none_aborts_walk(stk, res) == [stack |-> <<>>, results |-> res]

\* `if response is None: return`
on_fetch_none(stk, res) == [stack |-> Tail(stk), results |-> res]

execute_result_needs_pages(res) ==
    [success |-> res # <<>>, data |-> res,
     total_pages |-> Cardinality(DOMAIN res)]

\* the dict returned by WebCrawlerAgent.execute
execute_result(res) ==
    [success |-> TRUE, data |-> res, total_pages |-> Cardinality(DOMAIN res)]

Frame_depth_zero(url, depth) ==
    [url |-> url, depth |-> 0, pc |-> "fetch", attempt |-> 0, links |-> {}]

Frame(url, depth) ==
    [url |-> url, depth |-> depth, pc |-> "fetch", attempt |-> 0, links |-> {}]

Top == Head(stack)

\* a call _crawl_recursive(url, keywords, depth) made with `rest` as the
\* frames of its callers: it returns at once or marks url visited and goes on
\* to fetch
Enter(url, depth, rest) ==
    IF ReturnsAtOnce(url, depth)
    THEN /\ stack' = rest
         /\ UNCHANGED visited_urls
    ELSE /\ visited_urls' = visited_urls \cup {url}
         /\ stack' = <<Frame(url, depth)>> \o rest

\* ------------------------------------------------------------------ actions

\* a caller (OrchestratorAgent.execute) calls web_crawler.execute(input_data)
ExecuteCallWith(seed_lists) ==
    /\ UNCHANGED outside_crawler
    /\ status \in {"idle", "returned", "raised"}
    /\ runs < MaxRuns
    /\ \E u \in seed_lists, k \in KeywordLists :
          /\ urls' = u
          /\ keywords' = k
    /\ status' = "running"
    /\ seedIdx' = 1
    /\ runs' = runs + 1
    /\ result' = None
    /\ gets' = 0
    /\ fetch_calls' = NoCalls
    /\ skipped' = 0
    /\ event' = "call"
    /\ slept' = NoSleep
    /\ got' = None
    /\ web' = web
    /\ UNCHANGED <<max_depth, max_pages, visited_urls, results,
                   current_ua_index, stack>>

ExecuteCall == ExecuteCallWith(SeedLists)

\* for url in urls: self._crawl_recursive(url, keywords, depth=0)
ExecuteSeed ==
    /\ UNCHANGED outside_crawler
    /\ status = "running"
    /\ stack = <<>>
    /\ seedIdx <= Len(urls)
    /\ Enter(urls[seedIdx], 0, <<>>)
    /\ seedIdx' = seedIdx + 1
    /\ event' = "seed"
    /\ slept' = NoSleep
    /\ got' = None
    /\ web' = web
    /\ UNCHANGED <<max_depth, max_pages, results, current_ua_index, status,
                   urls, keywords, result, runs, gets, fetch_calls, skipped>>

\* return {'success': True, 'data': self.results, 'total_pages': ...}
ExecuteReturn ==
    /\ UNCHANGED outside_crawler
    /\ status = "running"
    /\ stack = <<>>
    /\ seedIdx > Len(urls)
    /\ status' = "returned"
    /\ result' = execute_result(results)
    /\ urls' = <<>>
    /\ keywords' = <<>>
    /\ seedIdx' = 1
    /\ event' = "execute_return"
    /\ slept' = NoSleep
    /\ got' = None
    /\ web' = web
    /\ UNCHANGED <<max_depth, max_pages, visited_urls, results,
                   current_ua_index, stack, runs, gets, fetch_calls, skipped>>

\* one attempt of _fetch_with_retry for the innermost frame
FetchAttempt ==
    /\ UNCHANGED outside_crawler
    /\ status = "running"
    /\ stack # <<>>
    /\ Top.pc = "fetch"
    /\ \E outcome \in Outcomes :
         LET st == fetch_attempt(outcome, Top.attempt)
             url == Top.url
             exhausted == Top.attempt + 1 >= max_retries
         IN  /\ gets' = gets + 1
             /\ fetch_calls' = IF Top.attempt = 0
                               THEN [fetch_calls EXCEPT ![url] = @ + 1]
                               ELSE fetch_calls
             /\ current_ua_index' =
                    IF st.rotate THEN rotate_user_agent(current_ua_index)
                    ELSE current_ua_index
             /\ got' = outcome
             /\ web' = web
             /\ slept' = IF st.secs > 0
                         THEN [kind |-> "backoff", secs |-> st.secs]
                         ELSE NoSleep
             /\ CASE st.kind = "response" ->
                       /\ stack' = <<[Top EXCEPT !.pc = "parse",
                                                 !.attempt = @ + 1]>>
                                   \o Tail(stack)
                       /\ event' = "fetch_response"
                       /\ UNCHANGED <<results, status, skipped>>
                  [] st.kind = "retry" /\ ~exhausted ->
                       /\ stack' = <<[Top EXCEPT !.attempt = @ + 1]>>
                                   \o Tail(stack)
                       /\ event' = "fetch_retry"
                       /\ UNCHANGED <<results, status, skipped>>
                  [] st.kind = "none" \/ (st.kind = "retry" /\ exhausted) ->
                       LET r == on_fetch_none(stack, results)
                       IN  /\ stack' = r.stack
                           /\ results' = r.results
                           /\ event' = "fetch_none"
                           /\ skipped' = skipped + 1
                           /\ UNCHANGED status
                  [] st.kind = "raise" ->
                       LET r == crawl_except(stack)
                       IN  /\ stack' = r.stack
                           /\ status' = r.status
                           /\ event' = "fetch_raised"
                           /\ skipped' = skipped + 1
                           /\ UNCHANGED results
    /\ UNCHANGED <<max_depth, max_pages, visited_urls, urls, keywords,
                   seedIdx, result, runs>>

\* BeautifulSoup(...), _extract_title or _extract_content raises
ExtractContentRaises ==
    /\ UNCHANGED outside_crawler
    /\ status = "running"
    /\ stack # <<>>
    /\ Top.pc = "parse"
    /\ LET r == crawl_except(stack)
       IN  /\ stack' = r.stack
           /\ status' = r.status
    /\ event' = "extract_raised"
    /\ skipped' = skipped + 1
    /\ slept' = NoSleep
    /\ got' = None
    /\ web' = web
    /\ UNCHANGED <<max_depth, max_pages, visited_urls, results,
                   current_ua_index, urls, keywords, seedIdx, result, runs,
                   gets, fetch_calls>>

\* results after the content extraction and the relevance gate of lines
\* 115-127
Gate(url, doc, depth) ==
    LET content_len == extract_content(page_html(url))
        relevance == calculate_keyword_relevance(doc, keywords)
    IN  IF Positive(relevance)
        THEN (url :> PageRecord(doc, content_len, relevance, depth)) @@ results
        ELSE results

\* content and links are extracted, the page is gated, and the frame either
\* starts its link loop or falls out of the try block and returns
ProcessPage ==
    /\ UNCHANGED outside_crawler
    /\ status = "running"
    /\ stack # <<>>
    /\ Top.pc = "parse"
    /\ \E hrefs \in web[Top.url] :
          /\ results' = Gate(Top.url, page_doc(Top.url), Top.depth)
          /\ IF Top.depth < max_depth
             THEN stack' = <<[Top EXCEPT !.pc = "links",
                                         !.links = extract_links(hrefs, Top.url)]>>
                           \o Tail(stack)
             ELSE stack' = Tail(stack)
    /\ event' = "processed"
    /\ slept' = NoSleep
    /\ got' = None
    /\ web' = web
    /\ UNCHANGED <<max_depth, max_pages, visited_urls, current_ua_index,
                   status, urls, keywords, seedIdx, result, runs, gets,
                   fetch_calls, skipped>>

\* the page is gated, then _extract_links raises (urljoin/urlparse ValueError)
ExtractLinksRaises ==
    /\ UNCHANGED outside_crawler
    /\ status = "running"
    /\ stack # <<>>
    /\ Top.pc = "parse"
    /\ Top.depth < max_depth
    /\ results' = Gate(Top.url, page_doc(Top.url), Top.depth)
    /\ LET r == crawl_except(stack)
       IN  /\ stack' = r.stack
           /\ status' = r.status
    /\ event' = "links_raised"
    /\ skipped' = skipped + 1
    /\ slept' = NoSleep
    /\ got' = None
    /\ web' = web
    /\ UNCHANGED <<max_depth, max_pages, visited_urls, current_ua_index,
                   urls, keywords, seedIdx, result, runs, gets, fetch_calls>>

sleep_delay_skipped == NoSleep

\* time.sleep(self.delay) before a recursive call
sleep_delay == [kind |-> "delay", secs |-> delay]

\* one iteration of `for link in links` (list(set(links)) has no fixed order)
FollowLink ==
    /\ UNCHANGED outside_crawler
    /\ status = "running"
    /\ stack # <<>>
    /\ Top.pc = "links"
    /\ \E link \in Top.links :
         LET rest == <<[Top EXCEPT !.links = @ \ {link}]>> \o Tail(stack)
         IN  IF Cardinality(visited_urls) < max_pages
             THEN /\ slept' = sleep_delay
                  /\ got' = None
                  /\ web' = web
                  /\ event' = "follow"
                  /\ Enter(link, Top.depth + 1, rest)
             ELSE /\ stack' = rest
                  /\ slept' = NoSleep
                  /\ got' = None
                  /\ web' = web
                  /\ event' = "skip_link"
                  /\ UNCHANGED visited_urls
    /\ UNCHANGED <<max_depth, max_pages, results, current_ua_index, status,
                   urls, keywords, seedIdx, result, runs, gets, fetch_calls,
                   skipped>>

\* the link loop is over: _crawl_recursive returns to its caller
CrawlReturn ==
    /\ UNCHANGED outside_crawler
    /\ status = "running"
    /\ stack # <<>>
    /\ Top.pc = "links"
    /\ Top.links = {}
    /\ stack' = Tail(stack)
    /\ event' = "crawl_return"
    /\ slept' = NoSleep
    /\ got' = None
    /\ web' = web
    /\ UNCHANGED <<max_depth, max_pages, visited_urls, results,
                   current_ua_index, status, urls, keywords, seedIdx, result,
                   runs, gets, fetch_calls, skipped>>

\* the steps of one execute call
CrawlStep ==
    \/ ExecuteSeed
    \/ ExecuteReturn
    \/ FetchAttempt
    \/ ExtractContentRaises
    \/ ProcessPage
    \/ ExtractLinksRaises
    \/ FollowLink
    \/ CrawlReturn

Next ==
    \/ ExecuteCall
    \/ ExecuteSeed
    \/ ExecuteReturn
    \/ FetchAttempt
    \/ ExtractContentRaises
    \/ ProcessPage
    \/ ExtractLinksRaises
    \/ FollowLink
    \/ CrawlReturn

Spec == Init /\ [][Next]_vars

\* the crawler on a server whose pages are fixed
WebInit == CrawlerInit(Webs)

WebExecuteCall == ExecuteCallWith(LinkedSeedLists)

WebNext ==
    \/ WebExecuteCall
    \/ CrawlStep

WebSpec == WebInit /\ [][WebNext]_vars

\* ---------------------------------------------------- similarity scorer
\* agents/similarity_agent.py  SimilarityAgent with use_transformer = False

MaxSimCalls == 2      \* SimilarityAgent.execute calls in one behaviour

TfPercent == 100      \* weighted_score += tf * 100
CoverageTenths == 6   \* coverage * 0.6
WeightedTenths == 4   \* min(weighted_score, 1.0) * 0.4

\* weighted_score is a binary floating-point number; the model keeps it as a
\* count of units of 1/UnitsPerOne with a significand of SignificandBits bits
\* (CPython's float has 53), so that every addition rounds as a float addition
\* does
UnitsPerOne == 32
SignificandBits == 3

QueryWords == Words

\* the number of \w characters of a token of a description
TokenLen(w) == IF w = "a" THEN 1 ELSE IF w = "deep" THEN 4 ELSE 2

\* a fraction num/den with den > 0
Frac(n, d) == [num |-> n, den |-> d]
GEq(a, b) == a.num * b.den >= b.num * a.den
Eq(a, b) == a.num * b.den = b.num * a.den

Thresholds == {Frac(0, 1), Frac(3, 10), Frac(1, 1)}

\* a crawled page as the scorer reads it: the occurrences of each query word
\* in the lowercased title and content, and len(doc_text.split())
MkPage(tai, cai, cml, cdl, n_words) ==
    [title |-> [w \in QueryWords |-> IF w = "ai" THEN tai ELSE 0],
     content |-> [w \in QueryWords |->
                     IF w = "ai" THEN cai ELSE IF w = "ml" THEN cml ELSE cdl],
     n_words |-> n_words]

Blank == MkPage(0, 0, 0, 0, 0)               \* empty title and content
Rising == MkPage(1, 0, 1, 8, 3200)
Falling == MkPage(0, 8, 1, 1, 3200)
Dense == MkPage(10, 40, 50, 50, 150)
Half == MkPage(0, 1, 0, 0, 200)
Other == MkPage(0, 0, 0, 0, 40)

Entry(url, data) == [url |-> url, data |-> data]

\* crawled_data: a dict, kept as its items in insertion order
CrawledSets ==
    {<<>>,
     <<Entry(A1, Rising), Entry(A2, Falling)>>,
     <<Entry(A1, Dense), Entry(A2, Blank), Entry(A3, Dense)>>,
     <<Entry(A1, Half), Entry(A2, Dense), Entry(B1, Rising), Entry(A3, Other)>>}

KeywordPair(keyword, description) ==
    [keyword |-> keyword, description |-> description]

\* query_keywords: (keyword, description) tuples, a description as its tokens
QuerySets ==
    {<<>>,
     <<KeywordPair("AI", <<"ml", "dl">>)>>,
     <<KeywordPair("ai", <<"a">>), KeywordPair("ml", <<>>)>>,
     <<KeywordPair("ai", <<"ai", "a">>)>>}

\* the orders in which a set of the query words can be iterated
HashOrders ==
    {o \in [1..Cardinality(QueryWords) -> QueryWords] :
        \A w \in QueryWords : \E i \in DOMAIN o : o[i] = w}

RECURSIVE Exponent(_)
Exponent(x) == IF x < 2^SignificandBits THEN 0 ELSE 1 + Exponent(x \div 2)

\* a / b rounded to the nearest integer, ties to even
RoundDiv(a, b) ==
    LET q == a \div b
        r == a % b
    IN  IF 2 * r > b \/ (2 * r = b /\ q % 2 = 1) THEN q + 1 ELSE q

\* x rounded to the nearest representable number, ties to even
fl(x) ==
    LET e == Exponent(x)
    IN  RoundDiv(x, 2^e) * 2^e

\* re.findall(r'\b\w{2,}\b', description.lower())
desc_words(description) ==
    {Lower(description[i]) : i \in {j \in 1..Len(description) :
                                        TokenLen(Lower(description[j])) >= 2}}

\* the set built at lines 108-115
all_keywords_set(query_keywords) ==
    UNION {{Lower(query_keywords[i].keyword)}
              \cup desc_words(query_keywords[i].description) :
           i \in 1..Len(query_keywords)}

\* list(set(all_keywords)): the set in the iteration order of this process
list_of_set(S, order) == SelectSeq(order, LAMBDA w : w \in S)

\* doc_text.count(kw) for doc_text = f"{title} {content}".lower()
doc_text_count(data, kw) == data.title[kw] + data.content[kw]

\* tf * 100 for tf = count / max(len(doc_text.split()), 1), in units
tf_term(count, data) ==
    fl(RoundDiv(count * TfPercent * UnitsPerOne,
                IF data.n_words >= 1 THEN data.n_words ELSE 1))

\* the loop `for kw in all_keywords` of lines 124-130
RECURSIVE match_loop(_, _, _)
match_loop(kws, data, acc) ==
    IF kws = <<>> THEN acc
    ELSE LET kw == Head(kws)
             count == doc_text_count(data, kw)
         IN  match_loop(Tail(kws), data,
                 IF count > 0
                 THEN [match_count |-> acc.match_count + 1,
                       weighted_score |->
                           fl(acc.weighted_score + tf_term(count, data))]
                 ELSE acc)

final_score_uncapped(match_count, weighted_score, n) ==
    IF n > 0
    THEN Frac(CoverageTenths * match_count * UnitsPerOne
                  + WeightedTenths * n * weighted_score,
              10 * n * UnitsPerOne)
    ELSE Frac(0, 1)

\* lines 133-138: coverage * 0.6 + min(weighted_score, 1.0) * 0.4, or 0.0
final_score(match_count, weighted_score, n) ==
    IF n > 0
    THEN Frac(CoverageTenths * match_count * UnitsPerOne
                  + WeightedTenths * n * Min(weighted_score, UnitsPerOne),
              10 * n * UnitsPerOne)
    ELSE Frac(0, 1)

UrlsOf(crawled_data) == {crawled_data[i].url : i \in 1..Len(crawled_data)}

\* crawled_data[url]
DataOf(crawled_data, url) ==
    crawled_data[CHOOSE i \in 1..Len(crawled_data) :
                    crawled_data[i].url = url].data

\* _calculate_keyword_similarity: url -> score
calculate_keyword_similarity(crawled_data, query_keywords, order) ==
    LET all_keywords == list_of_set(all_keywords_set(query_keywords), order)
    IN  [url \in UrlsOf(crawled_data) |->
            LET data == DataOf(crawled_data, url)
                acc == match_loop(all_keywords, data,
                                  [match_count |-> 0, weighted_score |-> 0])
            IN  final_score(acc.match_count, acc.weighted_score,
                            Len(all_keywords))]

keeps_strict(score, threshold) == ~GEq(threshold, score)

\* if score >= self.similarity_threshold
keeps(score, threshold) == GEq(score, threshold)

\* sorted(..., reverse=True) is stable: x goes behind every item whose score
\* is not smaller than its own
RECURSIVE insert_sorted(_, _)
insert_sorted(x, s) ==
    IF s = <<>> THEN <<x>>
    ELSE IF GEq(Head(s).similarity_score, x.similarity_score)
         THEN <<Head(s)>> \o insert_sorted(x, Tail(s))
         ELSE <<x>> \o s

RECURSIVE sorted_reverse(_)
sorted_reverse(items) ==
    IF items = <<>> THEN <<>>
    ELSE insert_sorted(items[Len(items)],
                       sorted_reverse(SubSeq(items, 1, Len(items) - 1)))

\* _filter_by_similarity: the filtered dict as its items in order
filter_by_similarity(crawled_data, similarity_scores, threshold) ==
    LET kept == SelectSeq(crawled_data,
                    LAMBDA en : keeps(similarity_scores[en.url], threshold))
        items == [i \in 1..Len(kept) |->
                    [url |-> kept[i].url, data |-> kept[i].data,
                     similarity_score |-> similarity_scores[kept[i].url]]]
    IN  sorted_reverse(items)

filter_input_after_in_place(crawled_data, similarity_scores, threshold) ==
    [i \in 1..Len(crawled_data) |->
        IF keeps(similarity_scores[crawled_data[i].url], threshold)
        THEN Entry(crawled_data[i].url,
                   [similarity_score |->
                        similarity_scores[crawled_data[i].url]]
                       @@ crawled_data[i].data)
        ELSE crawled_data[i]]

\* crawled_data once _filter_by_similarity has returned: line 149 builds a new
\* dict {**data, 'similarity_score': score} for a page it keeps and stores
\* nothing in data
filter_input_after(crawled_data, similarity_scores, threshold) == crawled_data

\* the dict whose items crawled_data gives, under the keys of the mapping it
\* was read from
dict_of(crawled_data, mapping) ==
    [u \in DOMAIN mapping |-> DataOf(crawled_data, u)]

\* the value SimilarityAgent.execute returns
similarity_execute(crawled_data, query_keywords, threshold, order) ==
    IF crawled_data = <<>>
    THEN [success |-> FALSE, filtered_data |-> <<>>,
          similarity_scores |-> <<>>, total_filtered |-> 0]
    ELSE LET scores == calculate_keyword_similarity(crawled_data,
                                                    query_keywords, order)
             filtered == filter_by_similarity(crawled_data, scores, threshold)
         IN  [success |-> TRUE, filtered_data |-> filtered,
              similarity_scores |-> scores, total_filtered |-> Len(filtered)]

\* the crawler of this process is not used
CrawlerIdle ==
    /\ max_depth = 0
    /\ max_pages = 1
    /\ visited_urls = {}
    /\ results = <<>>
    /\ current_ua_index = 0
    /\ status = "idle"
    /\ urls = <<>>
    /\ keywords = <<>>
    /\ seedIdx = 1
    /\ stack = <<>>
    /\ result = None
    /\ runs = 0
    /\ gets = 0
    /\ fetch_calls = NoCalls
    /\ skipped = 0
    /\ event = "init"
    /\ slept = NoSleep
    /\ got = None
    /\ web = AnyWeb

\* a process starts and builds SimilarityAgent(similarity_threshold=...)
ScoreInit ==
    /\ CrawlerIdle
    /\ similarity_threshold \in Thresholds
    /\ hash_order \in HashOrders
    /\ sim_input = None
    /\ sim_result = None
    /\ sim_prev_input = None
    /\ sim_prev = None
    /\ sim_calls = 0
    /\ PipeIdle

\* SimilarityAgent.execute(input_data)
SimilarityExecute ==
    /\ sim_calls < MaxSimCalls
    /\ \E c \in CrawledSets, q \in QuerySets :
          /\ sim_input' = [crawled_data |-> c, query_keywords |-> q]
          /\ sim_result' = similarity_execute(c, q, similarity_threshold,
                                              hash_order)
    /\ sim_prev_input' = sim_input
    /\ sim_prev' = sim_result
    /\ sim_calls' = sim_calls + 1
    /\ UNCHANGED <<similarity_threshold, hash_order>>
    /\ UNCHANGED <<vars, pipe_vars>>

\* the program is started again with the same configuration: str hashes are
\* salted per process (PYTHONHASHSEED is random unless set), and with them the
\* iteration order of a set of str
NewProcess ==
    /\ sim_calls >= 1
    /\ sim_calls < MaxSimCalls
    /\ hash_order' \in HashOrders \ {hash_order}
    /\ UNCHANGED <<similarity_threshold, sim_input, sim_result,
                   sim_prev_input, sim_prev, sim_calls>>
    /\ UNCHANGED <<vars, pipe_vars>>

ScoreNext ==
    \/ SimilarityExecute
    \/ NewProcess

ScoreSpec == ScoreInit /\ [][ScoreNext]_all_vars

\* ------------------------------------------------------------- pipeline
\* agents/summarization_agent.py, agents/report_agent.py,
\* agents/orchestrator_agent.py, graph_nodes.py, graph_workflow.py

CrawlerMaxDepth == 2      \* Config.CRAWLER_MAX_DEPTH
CrawlerMaxPages == 2      \* Config.CRAWLER_MAX_PAGES

\* the label of the group of the pages no keyword matches (the Korean word
\* for "other" in the source)
OtherBucket == "other"

\* report_path of ReportAgent.execute with use_terminal_output = True
TerminalOutput == "Terminal Output"

\* keywords = [kw for kw, _ in query_keywords]
keywords_of(query_keywords) ==
    [i \in 1..Len(query_keywords) |-> query_keywords[i].keyword]

\* the orders in which the items of a dict with the keys S can stand
ItemOrders(S) ==
    {o \in [1..Cardinality(S) -> S] : \A u \in S : \E i \in DOMAIN o : o[i] = u}

\* the dict `data` of the crawler's result as its items in the order o
items_of(data, o) == [i \in 1..Len(o) |-> Entry(o[i], data[o[i]])]

\* twice the score _group_content gives a page for one (keyword, description):
\* text.count(keyword.lower()) plus 0.5 for every occurrence of a word of
\* three or more characters of the description
group_score(data, pair) ==
    LET lowered == [i \in 1..Len(pair.description) |->
                       Lower(pair.description[i])]
        words3 == SelectSeq(lowered, LAMBDA w : TokenLen(w) >= 3)
    IN  2 * doc_text_count(data, Lower(pair.keyword))
          + SumSeq([i \in 1..Len(words3) |-> doc_text_count(data, words3[i])])

RECURSIVE best_keyword_last_wins(_, _, _, _)
best_keyword_last_wins(data, query_keywords, best, best_score) ==
    IF query_keywords = <<>> THEN best
    ELSE LET score == group_score(data, Head(query_keywords))
         IN  IF score >= best_score /\ score > 0
             THEN best_keyword_last_wins(data, Tail(query_keywords),
                                         Head(query_keywords).keyword, score)
             ELSE best_keyword_last_wins(data, Tail(query_keywords), best,
                                         best_score)

\* the loop of lines 85-97: the first keyword of the strictly highest score
RECURSIVE best_keyword(_, _, _, _)
best_keyword(data, query_keywords, best, best_score) ==
    IF query_keywords = <<>> THEN best
    ELSE LET score == group_score(data, Head(query_keywords))
         IN  IF score > best_score
             THEN best_keyword(data, Tail(query_keywords),
                               Head(query_keywords).keyword, score)
             ELSE best_keyword(data, Tail(query_keywords), best, best_score)

\* lines 99-101
label_of(data, query_keywords) ==
    LET best == best_keyword(data, query_keywords, None, 0)
    IN  IF best = None THEN OtherBucket ELSE best

RECURSIVE first_seen_unmatched_dropped(_, _)
first_seen_unmatched_dropped(labels, seen) ==
    IF labels = <<>> THEN seen
    ELSE first_seen_unmatched_dropped(Tail(labels),
             IF Head(labels) = OtherBucket
                \/ \E i \in 1..Len(seen) : seen[i] = Head(labels)
             THEN seen ELSE Append(seen, Head(labels)))

\* the keys of keyword_groups in the order they were first used
RECURSIVE first_seen(_, _)
first_seen(labels, seen) ==
    IF labels = <<>> THEN seen
    ELSE first_seen(Tail(labels),
                    IF \E i \in 1..Len(seen) : seen[i] = Head(labels)
                    THEN seen ELSE Append(seen, Head(labels)))

\* lines 117-121
description_of(keyword, query_keywords) ==
    IF \E i \in 1..Len(query_keywords) : query_keywords[i].keyword = keyword
    THEN query_keywords[CHOOSE i \in 1..Len(query_keywords) :
             /\ query_keywords[i].keyword = keyword
             /\ \A j \in 1..(i - 1) : query_keywords[j].keyword # keyword
         ].description
    ELSE <<>>

RECURSIVE insert_by_count_ties_reversed(_, _)
insert_by_count_ties_reversed(g, s) ==
    IF s = <<>> THEN <<g>>
    ELSE IF Head(s).item_count > g.item_count
         THEN <<Head(s)>> \o insert_by_count_ties_reversed(g, Tail(s))
         ELSE <<g>> \o s

\* groups.sort(key=item_count, reverse=True), a stable sort
RECURSIVE insert_by_count(_, _)
insert_by_count(g, s) ==
    IF s = <<>> THEN <<g>>
    ELSE IF Head(s).item_count >= g.item_count
         THEN <<Head(s)>> \o insert_by_count(g, Tail(s))
         ELSE <<g>> \o s

RECURSIVE sort_by_count(_)
sort_by_count(gs) ==
    IF gs = <<>> THEN <<>>
    ELSE insert_by_count(gs[Len(gs)],
                         sort_by_count(SubSeq(gs, 1, Len(gs) - 1)))

\* _group_content
group_content(filtered_data, query_keywords) ==
    LET labels == [i \in 1..Len(filtered_data) |->
                      label_of(filtered_data[i].data, query_keywords)]
        keys == first_seen(labels, <<>>)
        item(i) == [url |-> filtered_data[i].url,
                    title |-> filtered_data[i].data.title,
                    content |-> filtered_data[i].data.content,
                    similarity_score |-> filtered_data[i].similarity_score]
        items_for(k) ==
            LET idx == SelectSeq([i \in 1..Len(filtered_data) |-> i],
                                 LAMBDA i : labels[i] = k)
            IN  sorted_reverse([j \in 1..Len(idx) |-> item(idx[j])])
        group(k) == [keyword |-> k,
                     description |-> description_of(k, query_keywords),
                     items |-> items_for(k),
                     item_count |-> Len(items_for(k))]
    IN  sort_by_count([n \in 1..Len(keys) |-> group(keys[n])])

\* _summarize_group: the group with its summary text
summarize_group(group) ==
    [keyword |-> group.keyword, description |-> group.description,
     summary |-> "summary", items |-> group.items,
     item_count |-> group.item_count]

\* the value SummarizationAgent.execute returns
summarization_execute(filtered_data, query_keywords) ==
    IF filtered_data = <<>>
    THEN [success |-> FALSE, groups |-> <<>>]
    ELSE LET groups == group_content(filtered_data, query_keywords)
             summarized == [i \in 1..Len(groups) |-> summarize_group(groups[i])]
         IN  [success |-> TRUE, groups |-> summarized,
              total_groups |-> Len(summarized)]

\* the value ReportAgent.execute returns
report_execute(groups) ==
    [success |-> TRUE, report_path |-> TerminalOutput]

\* SummarizationAgent.__init__(self, use_llm, api_key) called with the
\* keywords given: TRUE when the call raises TypeError
init_raises(kwargs) == ~(kwargs \subseteq {"use_llm", "api_key"})

PipeResult_always_success(success, report_path, error, total_groups) ==
    [success |-> TRUE, report_path |-> report_path, error |-> error,
     total_groups |-> total_groups]

\* the dict an entry point returns, read with .get(): success, report_path,
\* error and the number of groups, None or Absent for a missing key
PipeResult(success, report_path, error, total_groups) ==
    [success |-> success, report_path |-> report_path, error |-> error,
     total_groups |-> total_groups]

\* a process starts with its configuration; OrchestratorAgent.__init__ and the
\* nodes of the workflow build their agents from it
PipeInit ==
    /\ max_depth = CrawlerMaxDepth
    /\ max_pages = CrawlerMaxPages
    /\ visited_urls = {}
    /\ results = <<>>
    /\ current_ua_index = 0
    /\ status = "idle"
    /\ urls = <<>>
    /\ keywords = <<>>
    /\ seedIdx = 1
    /\ stack = <<>>
    /\ result = None
    /\ runs = 0
    /\ gets = 0
    /\ fetch_calls = NoCalls
    /\ skipped = 0
    /\ event = "init"
    /\ slept = NoSleep
    /\ got = None
    /\ web = AnyWeb
    /\ similarity_threshold \in Thresholds
    /\ hash_order \in HashOrders
    /\ sim_input = None
    /\ sim_result = None
    /\ sim_prev_input = None
    /\ sim_prev = None
    /\ sim_calls = 0
    /\ PipeIdle

\* crawler.execute({'urls': u, 'keywords': k}) is entered
CrawlerCalled(u, k) ==
    /\ urls' = u
    /\ keywords' = k
    /\ status' = "running"
    /\ seedIdx' = 1
    /\ stack' = <<>>
    /\ runs' = runs + 1
    /\ result' = None
    /\ gets' = 0
    /\ fetch_calls' = NoCalls
    /\ skipped' = 0
    /\ event' = "call"
    /\ slept' = NoSleep
    /\ got' = None
    /\ web' = web

\* similarity_agent.execute(...) returned res
SimilarityCalled(c, q, res) ==
    /\ sim_input' = [crawled_data |-> c, query_keywords |-> q]
    /\ sim_result' = res
    /\ sim_prev_input' = sim_input
    /\ sim_prev' = sim_result
    /\ sim_calls' = sim_calls + 1
    /\ UNCHANGED <<similarity_threshold, hash_order>>

\* run_research_workflow up to app.invoke, and web_crawler_node up to the call
\* of crawler.execute on the crawler it has just built
RunResearchWorkflow ==
    /\ entry = "none"
    /\ entry' = "workflow"
    /\ pipe_pc' = "web_crawler"
    /\ \E u \in SeedLists, q \in QuerySets :
          /\ in_urls' = u
          /\ in_query' = q
          /\ CrawlerCalled(u, keywords_of(q))
    /\ max_depth' = CrawlerMaxDepth
    /\ max_pages' = CrawlerMaxPages
    /\ visited_urls' = {}
    /\ results' = <<>>
    /\ current_ua_index' = 0
    /\ st_crawled_data' = None
    /\ st_filtered_data' = None
    /\ st_groups' = None
    /\ st_report_path' = None
    /\ st_errors' = <<>>
    /\ st_success' = TRUE
    /\ UNCHANGED <<pipe_result, scorer_vars>>

\* web_crawler_node after crawler.execute has returned
WebCrawlerNode ==
    /\ entry = "workflow"
    /\ pipe_pc = "web_crawler"
    /\ status = "returned"
    /\ IF result.success
       THEN /\ \E o \in ItemOrders(DOMAIN result.data) :
                  st_crawled_data' = items_of(result.data, o)
            /\ st_errors' = st_errors \o <<>>
            /\ UNCHANGED st_success
       ELSE /\ st_crawled_data' = <<>>
            /\ st_errors' = st_errors \o <<"crawl_failed">>
            /\ st_success' = FALSE
    /\ pipe_pc' = "similarity"
    /\ UNCHANGED <<entry, in_urls, in_query, st_filtered_data, st_groups,
                   st_report_path, pipe_result>>
    /\ UNCHANGED <<vars, scorer_vars>>

\* similarity_node
SimilarityNode ==
    /\ entry = "workflow"
    /\ pipe_pc = "similarity"
    /\ IF st_crawled_data = <<>>
       THEN /\ st_filtered_data' = <<>>
            /\ st_errors' = st_errors \o <<"no_crawled_data">>
            /\ UNCHANGED <<st_success, scorer_vars, st_crawled_data, results>>
       ELSE LET res == similarity_execute(st_crawled_data, in_query,
                                          similarity_threshold, hash_order)
                after == filter_input_after(st_crawled_data,
                                            res.similarity_scores,
                                            similarity_threshold)
            IN  /\ SimilarityCalled(st_crawled_data, in_query, res)
                /\ st_crawled_data' = after
                /\ results' = dict_of(after, results)
                /\ IF res.success
                   THEN /\ st_filtered_data' = res.filtered_data
                        /\ st_errors' = st_errors \o <<>>
                        /\ UNCHANGED st_success
                   ELSE /\ st_filtered_data' = <<>>
                        /\ st_errors' = st_errors \o <<"similarity_failed">>
                        /\ st_success' = FALSE
    /\ pipe_pc' = "summarization"
    /\ UNCHANGED <<entry, in_urls, in_query, st_groups, st_report_path,
                   pipe_result>>
    /\ UNCHANGED <<max_depth, max_pages, visited_urls, current_ua_index,
                   status, urls, keywords, seedIdx, stack, result, runs, gets,
                   fetch_calls, skipped, event, slept, got, web>>

\* summarization_node; an exception that leaves the node leaves app.invoke and
\* is caught by run_research_workflow, which returns its failure dict
SummarizationNode ==
    /\ entry = "workflow"
    /\ pipe_pc = "summarization"
    /\ IF st_filtered_data = <<>>
       THEN /\ st_groups' = <<>>
            /\ st_errors' = st_errors \o <<"no_filtered_data">>
            /\ pipe_pc' = "report"
            /\ UNCHANGED <<st_success, pipe_result>>
       ELSE IF init_raises({"use_llm", "use_litellm", "litellm_model",
                            "api_key"})
       THEN /\ pipe_result' = PipeResult(FALSE, None, "TypeError", Absent)
            /\ st_errors' = <<"TypeError">>
            /\ pipe_pc' = "done"
            /\ UNCHANGED <<st_groups, st_success>>
       ELSE LET res == summarization_execute(st_filtered_data, in_query)
            IN  /\ pipe_pc' = "report"
                /\ UNCHANGED pipe_result
                /\ IF res.success
                   THEN /\ st_groups' = res.groups
                        /\ st_errors' = st_errors \o <<>>
                        /\ UNCHANGED st_success
                   ELSE /\ st_groups' = <<>>
                        /\ st_errors' = st_errors \o <<"summarization_failed">>
                        /\ st_success' = FALSE
    /\ UNCHANGED <<entry, in_urls, in_query, st_crawled_data,
                   st_filtered_data, st_report_path>>
    /\ UNCHANGED <<vars, scorer_vars>>

\* report_node
ReportNode ==
    /\ entry = "workflow"
    /\ pipe_pc = "report"
    /\ LET res == report_execute(st_groups)
       IN  IF res.success
           THEN /\ st_report_path' = res.report_path
                /\ st_errors' = st_errors \o <<>>
                /\ st_success' = TRUE
           ELSE /\ st_report_path' = None
                /\ st_errors' = st_errors \o <<"report_failed">>
                /\ st_success' = FALSE
    /\ pipe_pc' = "finish"
    /\ UNCHANGED <<entry, in_urls, in_query, st_crawled_data,
                   st_filtered_data, st_groups, pipe_result>>
    /\ UNCHANGED <<vars, scorer_vars>>

\* run_research_workflow after app.invoke has returned final_state
WorkflowFinish ==
    /\ entry = "workflow"
    /\ pipe_pc = "finish"
    /\ LET has_errors == Len(st_errors) > 0
           success == ~has_errors /\ st_report_path # None
       IN  /\ st_success' = success
           /\ pipe_result' = PipeResult(success, st_report_path, None,
                                        Len(st_groups))
    /\ pipe_pc' = "done"
    /\ UNCHANGED <<entry, in_urls, in_query, st_crawled_data,
                   st_filtered_data, st_groups, st_report_path, st_errors>>
    /\ UNCHANGED <<vars, scorer_vars>>

\* OrchestratorAgent.execute up to the call of self.web_crawler.execute
OrchestratorExecute ==
    /\ entry = "none"
    /\ entry' = "orchestrator"
    /\ \E u \in SeedLists, q \in QuerySets :
          /\ in_urls' = u
          /\ in_query' = q
          /\ IF u = <<>>
             THEN /\ pipe_result' = PipeResult(FALSE, None, "No URLs provided",
                                               Absent)
                  /\ pipe_pc' = "done"
                  /\ UNCHANGED vars
             ELSE IF q = <<>>
             THEN /\ pipe_result' = PipeResult(FALSE, None,
                                               "No keywords provided", Absent)
                  /\ pipe_pc' = "done"
                  /\ UNCHANGED vars
             ELSE /\ CrawlerCalled(u, keywords_of(q))
                  /\ pipe_pc' = "web_crawler"
                  /\ UNCHANGED <<pipe_result, max_depth, max_pages,
                                 visited_urls, results, current_ua_index>>
    /\ UNCHANGED <<st_crawled_data, st_filtered_data, st_groups,
                   st_report_path, st_errors, st_success, scorer_vars>>

\* OrchestratorAgent.execute from the return of the crawler to the return of
\* the similarity agent
OrchestratorSimilarity ==
    /\ entry = "orchestrator"
    /\ pipe_pc = "web_crawler"
    /\ status = "returned"
    /\ IF ~result.success
       THEN /\ pipe_result' = PipeResult(FALSE, None, "Web crawling failed",
                                         Absent)
            /\ pipe_pc' = "done"
            /\ UNCHANGED <<st_crawled_data, st_filtered_data, scorer_vars,
                           results>>
       ELSE \E o \in ItemOrders(DOMAIN result.data) :
              LET crawled == items_of(result.data, o)
                  res == similarity_execute(crawled, in_query,
                                            similarity_threshold, hash_order)
                  after == filter_input_after(crawled, res.similarity_scores,
                                              similarity_threshold)
              IN  /\ st_crawled_data' = after
                  /\ results' = dict_of(after, results)
                  /\ SimilarityCalled(crawled, in_query, res)
                  /\ IF ~res.success
                     THEN /\ pipe_result' =
                                PipeResult(FALSE, None,
                                           "Similarity analysis failed", Absent)
                          /\ pipe_pc' = "done"
                          /\ UNCHANGED st_filtered_data
                     ELSE /\ st_filtered_data' = res.filtered_data
                          /\ pipe_pc' = "summarization"
                          /\ UNCHANGED pipe_result
    /\ UNCHANGED <<entry, in_urls, in_query, st_groups, st_report_path,
                   st_errors, st_success>>
    /\ UNCHANGED <<max_depth, max_pages, visited_urls, current_ua_index,
                   status, urls, keywords, seedIdx, stack, result, runs, gets,
                   fetch_calls, skipped, event, slept, got, web>>

\* OrchestratorAgent.execute: the summarization step
OrchestratorSummarization ==
    /\ entry = "orchestrator"
    /\ pipe_pc = "summarization"
    /\ LET res == summarization_execute(st_filtered_data, in_query)
       IN  IF ~res.success
           THEN /\ pipe_result' = PipeResult(FALSE, None,
                                             "Summarization failed", Absent)
                /\ pipe_pc' = "done"
                /\ UNCHANGED st_groups
           ELSE /\ st_groups' = res.groups
                /\ pipe_pc' = "report"
                /\ UNCHANGED pipe_result
    /\ UNCHANGED <<entry, in_urls, in_query, st_crawled_data,
                   st_filtered_data, st_report_path, st_errors, st_success>>
    /\ UNCHANGED <<vars, scorer_vars>>

\* OrchestratorAgent.execute: the report step and the return
OrchestratorReport ==
    /\ entry = "orchestrator"
    /\ pipe_pc = "report"
    /\ LET res == report_execute(st_groups)
       IN  IF ~res.success
           THEN /\ pipe_result' = PipeResult(FALSE, None,
                                             "Report generation failed", Absent)
                /\ UNCHANGED st_report_path
           ELSE /\ st_report_path' = res.report_path
                /\ pipe_result' = PipeResult(TRUE, res.report_path, None,
                                             Len(st_groups))
    /\ pipe_pc' = "done"
    /\ UNCHANGED <<entry, in_urls, in_query, st_crawled_data,
                   st_filtered_data, st_groups, st_errors, st_success>>
    /\ UNCHANGED <<vars, scorer_vars>>

PipeNext ==
    \/ RunResearchWorkflow
    \/ WebCrawlerNode
    \/ SimilarityNode
    \/ SummarizationNode
    \/ ReportNode
    \/ WorkflowFinish
    \/ OrchestratorExecute
    \/ OrchestratorSimilarity
    \/ OrchestratorSummarization
    \/ OrchestratorReport
    \/ ExecuteSeed
    \/ ExecuteReturn
    \/ FetchAttempt
    \/ ExtractContentRaises
    \/ ProcessPage
    \/ ExtractLinksRaises
    \/ FollowLink
    \/ CrawlReturn

PipeSpec == PipeInit /\ [][PipeNext]_all_vars

\* ------------------------------------------------------------- grouper
\* SimilarityAgent.execute followed by SummarizationAgent.execute on its
\* filtered_data, as steps 2 and 3 of OrchestratorAgent.execute chain them

\* the words a query of this section can hold: "deep" is a description word
\* of three or more characters
GroupWords == Words \cup {"deep"}

\* a crawled page: occurrences of "ai" in the title, of "ai", "ml" and "deep"
\* in the content, and len(doc_text.split())
MkGroupPage(tai, cai, cml, cdeep, n_words) ==
    [title |-> [w \in GroupWords |-> IF w = "ai" THEN tai ELSE 0],
     content |-> [w \in GroupWords |->
                     IF w = "ai" THEN cai
                     ELSE IF w = "ml" THEN cml
                     ELSE IF w = "deep" THEN cdeep ELSE 0],
     n_words |-> n_words]

MostlyAi == MkGroupPage(0, 3, 1, 0, 100)
MostlyMl == MkGroupPage(0, 1, 3, 0, 100)
Tied == MkGroupPage(1, 1, 2, 0, 100)         \* "ai" twice, "ml" twice
ByDescription == MkGroupPage(0, 1, 2, 3, 100)
HalfTied == MkGroupPage(0, 1, 2, 2, 50)      \* 1 + 0.5 * 2 against 2
OnlyMl == MkGroupPage(0, 0, 3, 0, 100)
NoWord == MkGroupPage(0, 0, 0, 0, 40)
NoWordShort == MkGroupPage(0, 0, 0, 0, 10)

GroupCrawledSets ==
    {<<>>,
     <<Entry(A1, MostlyMl), Entry(A2, NoWord), Entry(A3, ByDescription),
       Entry(B1, Tied)>>,
     <<Entry(A1, NoWord), Entry(A2, OnlyMl), Entry(A3, HalfTied)>>,
     <<Entry(A1, MostlyAi), Entry(A2, NoWord), Entry(A3, NoWordShort),
       Entry(B1, MostlyAi)>>}

GroupQuerySets ==
    {<<>>,
     <<KeywordPair("ai", <<"deep">>), KeywordPair("ml", <<>>)>>,
     <<KeywordPair("ml", <<>>), KeywordPair("AI", <<"deep", "a">>)>>,
     <<KeywordPair("ai", <<"ml">>)>>}

\* the orders in which a set of these words can be iterated
GroupHashOrders ==
    {o \in [1..Cardinality(GroupWords) -> GroupWords] :
        \A w \in GroupWords : \E i \in DOMAIN o : o[i] = w}

\* a process starts and builds the two agents
GroupInit ==
    /\ CrawlerIdle
    /\ similarity_threshold \in Thresholds
    /\ hash_order \in GroupHashOrders
    /\ sim_input = None
    /\ sim_result = None
    /\ sim_prev_input = None
    /\ sim_prev = None
    /\ sim_calls = 0
    /\ PipeIdle

\* similarity_agent.execute({'crawled_data': ..., 'query_keywords': ...})
SimilarityAgentExecute ==
    /\ entry = "none"
    /\ entry' = "agents"
    /\ \E c \in GroupCrawledSets, q \in GroupQuerySets :
         LET res == similarity_execute(c, q, similarity_threshold, hash_order)
         IN  /\ SimilarityCalled(c, q, res)
             /\ in_query' = q
             /\ st_crawled_data' =
                    filter_input_after(c, res.similarity_scores,
                                       similarity_threshold)
             /\ st_filtered_data' = res.filtered_data
             /\ st_success' = res.success
    /\ pipe_pc' = "summarization"
    /\ UNCHANGED <<in_urls, st_groups, st_report_path, st_errors,
                   pipe_result>>
    /\ UNCHANGED vars

\* summarization_agent.execute({'filtered_data': ..., 'query_keywords': ...})
SummarizationAgentExecute ==
    /\ entry = "agents"
    /\ pipe_pc = "summarization"
    /\ LET res == summarization_execute(st_filtered_data, in_query)
       IN  /\ st_groups' = res.groups
           /\ st_success' = res.success
    /\ pipe_pc' = "done"
    /\ UNCHANGED <<entry, in_urls, in_query, st_crawled_data,
                   st_filtered_data, st_report_path, st_errors, pipe_result>>
    /\ UNCHANGED <<vars, scorer_vars>>

GroupNext ==
    \/ SimilarityAgentExecute
    \/ SummarizationAgentExecute

GroupSpec == GroupInit /\ [][GroupNext]_all_vars

\* ------------------------------------------------------------- properties

Frames == {stack[i] : i \in 1..Len(stack)}

HasSchemeAndHost(url) == url.scheme # "" /\ url.netloc # ""

FetchCallsTotal == SumOver(fetch_calls, URLS)

\* a link of the innermost frame that a further iteration would still crawl
SiblingLeft ==
    /\ stack # <<>>
    /\ Top.pc = "links"
    /\ Cardinality(visited_urls) < max_pages
    /\ \E l \in Top.links : l \notin visited_urls

SeedLeft == stack = <<>> /\ status = "running" /\ seedIdx <= Len(urls)

\* C1: the visited set never holds more than max_pages URLs, and no step
\* removes a URL from it.
C1_VisitedBoundedAndGrows ==
    /\ [](Cardinality(visited_urls) <= max_pages)
    /\ [][visited_urls \subseteq visited_urls']_vars

\* the page budget is used up while an unvisited link is still pending
C1_Witness ==
    /\ Cardinality(visited_urls) = max_pages
    /\ stack # <<>>
    /\ Top.pc = "links"
    /\ \E l \in Top.links : l \notin visited_urls

\* C2: every PageRecord of the result mapping has 0 <= depth <= max_depth.
C2_DepthBounded ==
    \A u \in DOMAIN results :
        results[u].depth >= 0 /\ results[u].depth <= max_depth

C2_Witness ==
    /\ max_depth >= 1
    /\ \E u \in DOMAIN results : results[u].depth = max_depth

\* an upper bound on the links one page can yield
LinkFanout == Cardinality(ResolvedURLS)

\* the steps a frame can still take itself, all links counted as steps
LocalSteps(f) ==
    CASE f.pc = "fetch" -> (max_retries - f.attempt) + 1 + LinkFanout + 1
      [] f.pc = "parse" -> 1 + LinkFanout + 1
      [] f.pc = "links" -> Cardinality(f.links) + 1

\* the steps left in the running execute call: the seeds not yet started, the
\* frames on the stack, and a whole frame for each page the budget still allows
Variant ==
    IF status # "running" THEN 0
    ELSE 1 + (Len(urls) + 1 - seedIdx)
           + (max_pages - Cardinality(visited_urls))
               * (max_retries + 1 + LinkFanout + 1)
           + SumSeq([i \in 1..Len(stack) |-> LocalSteps(stack[i])])

\* C3: execute terminates: a running call can always take a step, every step
\* of it lowers a natural-number measure built on the unused page budget, and
\* a call of _crawl_recursive that does not return at once adds one new URL to
\* the visited set.
C3_Terminates ==
    /\ [](status = "running" => ENABLED CrawlStep)
    /\ [](Variant >= 0)
    /\ [][status = "running" => Variant' < Variant]_vars
    /\ [][Len(stack') > Len(stack) =>
            /\ Head(stack').url \notin visited_urls
            /\ visited_urls' = visited_urls \cup {Head(stack').url}]_vars

\* a link was followed with budget left and the call returned at once: the
\* link led back to a visited page (a self-link or a cycle)
C3_Witness ==
    /\ event = "follow"
    /\ stack # <<>>
    /\ Top.pc = "links"
    /\ Cardinality(visited_urls) < max_pages

\* C4 as stated: the GET requests of one crawl, retries included, never
\* exceed max_pages.
C4_GetsAtMostMaxPages == gets <= max_pages

\* C4 amended: the calls of the fetch layer never exceed max_pages, and the
\* GET requests never exceed max_retries * max_pages.
C4_FetchCallsAtMostMaxPages ==
    /\ FetchCallsTotal <= max_pages
    /\ gets <= max_retries * max_pages

C4_Witness ==
    /\ FetchCallsTotal = max_pages
    /\ gets = max_retries * max_pages

\* C5: a URL lacking a scheme or a host is never visited and never fetched.
C5_InvalidNeverFetched ==
    \A u \in URLS :
        ~HasSchemeAndHost(u) =>
            /\ u \notin visited_urls
            /\ fetch_calls[u] = 0
            /\ \A f \in Frames : f.url # u

\* an ill-formed seed has been passed to _crawl_recursive
C5_Witness ==
    /\ status = "running"
    /\ \E i \in 1..Len(urls) : i < seedIdx /\ ~HasSchemeAndHost(urls[i])

\* C6: _fetch_with_retry never raises to _crawl_recursive and issues at most
\* max_retries GETs per call.
C6_FetchNeverRaises ==
    /\ event # "fetch_raised"
    /\ \A f \in Frames :
          /\ f.attempt <= max_retries
          /\ f.pc = "fetch" => f.attempt < max_retries
    /\ gets <= max_retries * FetchCallsTotal

\* one call of the fetch layer used all its attempts and returned None
C6_Witness ==
    /\ event = "fetch_none"
    /\ FetchCallsTotal = 1
    /\ gets = max_retries

\* C7: a node whose fetch ends in None leaves the result mapping alone and
\* returns to its caller, whose remaining links and seeds are untouched.
C7_FailedFetchSkipsNode ==
    [][(stack # <<>> /\ Top.pc = "fetch" /\ event' = "fetch_none") =>
          /\ results' = results
          /\ stack' = Tail(stack)
          /\ status' = "running"
          /\ seedIdx' = seedIdx
          /\ urls' = urls]_vars

\* a fetch has just failed and a sibling link or a seed is still to be crawled
C7_Witness == event = "fetch_none" /\ (SiblingLeft \/ SeedLeft)

\* C8: an exception raised while a page's content or links are extracted ends
\* that node only: its frame returns to the caller and execute never raises.
C8_ExtractionFailureContained ==
    /\ [](status # "raised")
    /\ [][(stack # <<>> /\ Top.pc = "parse"
            /\ event' \in {"extract_raised", "links_raised"}) =>
            /\ stack' = Tail(stack)
            /\ status' = "running"
            /\ seedIdx' = seedIdx
            /\ urls' = urls
            /\ (event' = "extract_raised" => results' = results)]_vars

C8_Witness ==
    /\ event \in {"extract_raised", "links_raised"}
    /\ (SiblingLeft \/ SeedLeft)

\* C9: execute returns success = TRUE with the pages collected, whatever
\* number of nodes failed.
C9_ExecuteAlwaysSucceeds ==
    /\ status # "raised"
    /\ status = "returned" =>
          /\ result.success = TRUE
          /\ result.data = results
          /\ result.total_pages = Cardinality(DOMAIN results)

C9_Witness ==
    /\ status = "returned"
    /\ skipped >= 2
    /\ result.data # <<>>

\* C10 as stated: every execute call starts from an empty visited set and an
\* empty result mapping.
C10_FreshPerInvocation ==
    event = "call" => (visited_urls = {} /\ results = <<>>)

\* C11 as stated: execute called with an empty seed list reports a crawl-level
\* failure.
C11_EmptySeedsFail ==
    [][(event' = "execute_return" /\ status = "running" /\ urls = <<>>) =>
          result'.success = FALSE]_vars

\* some keyword of the running call occurs in the title or the body of doc
KeywordOccurs(doc) ==
    \E i \in 1..Len(keywords) :
        doc.title[keywords[i]] + doc.content[keywords[i]] > 0

\* C15: a page that was fetched and parsed enters the result mapping exactly
\* when its gate score is positive, that is when the keyword list is empty or
\* a keyword occurs in it; with no keywords its relevance is 1.0; the other
\* records are left as they were.
C15_RetainedIffGatePositive ==
    [][(stack # <<>> /\ Top.pc = "parse"
            /\ event' \in {"processed", "links_raised"}) =>
          LET u == Top.url
              doc == page_doc(u)
          IN  /\ u \notin DOMAIN results
              /\ (u \in DOMAIN results') <=> (keywords = <<>> \/ KeywordOccurs(doc))
              /\ (keywords = <<>> =>
                     results'[u].relevance.num = results'[u].relevance.den)
              /\ \A v \in DOMAIN results :
                     v \in DOMAIN results' /\ results'[v] = results[v]
              /\ DOMAIN results' \subseteq DOMAIN results \cup {u}]_vars

\* a page holding a keyword was retained with a relevance below 1/2, and a
\* page without any keyword was fetched and dropped
C15_Witness ==
    /\ event \in {"processed", "links_raised"}
    /\ keywords # <<>>
    /\ A1 \in DOMAIN results
    /\ 2 * results[A1].relevance.num < results[A1].relevance.den
    /\ A2 \in visited_urls
    /\ fetch_calls[A2] = 1
    /\ A2 \notin DOMAIN results

\* the hosts of the seeds already passed to _crawl_recursive
SeedHosts == {urls[i].netloc : i \in 1..(seedIdx - 1)}

C17_ContentCapped ==
    \A u \in DOMAIN results :
        results[u].content_len >= 0 /\ results[u].content_len <= ContentCap

\* records were made of an <article> longer than the cap, of a <body> longer
\* than the cap after a <main> too short to count, and of a short div
C17_Witness ==
    /\ {A1, A2, A3} \subseteq DOMAIN results
    /\ page_html(A1).content_tags[1] > ContentCap
    /\ results[A1].content_len = ContentCap
    /\ page_html(A3).body > ContentCap
    /\ results[A3].content_len = ContentCap
    /\ results[A2].content_len = 101

\* the share of the distinct query words that occur in a page
Coverage(data, query_keywords) ==
    LET S == all_keywords_set(query_keywords)
    IN  Frac(Cardinality({w \in S : doc_text_count(data, w) > 0}),
             Cardinality(S))

\* SimilarityAgent.execute has returned scores
Scored == sim_calls >= 1 /\ sim_result.success

\* C18: with a non-empty query every page's score lies in [0, 1]; it is 0.6
\* times the coverage plus a share of at most 0.4, the full 0.4 making a score
\* of 1.0 only with full coverage.
C18_ScoreInUnitInterval ==
    (Scored /\ sim_input.query_keywords # <<>>) =>
        \A u \in DOMAIN sim_result.similarity_scores :
            LET sc == sim_result.similarity_scores[u]
                cov == Coverage(DataOf(sim_input.crawled_data, u),
                                sim_input.query_keywords)
                low == Frac(CoverageTenths * cov.num, 10 * cov.den)
                high == Frac(CoverageTenths * cov.num
                                 + WeightedTenths * cov.den, 10 * cov.den)
            IN  /\ sc.den > 0
                /\ sc.num >= 0
                /\ sc.num <= sc.den
                /\ GEq(sc, low)
                /\ GEq(high, sc)
                /\ (cov.num = 0 => sc.num = 0)
                /\ (sc.num = sc.den => cov.num = cov.den)

\* one call scored a page 1.0 whose weighted sum is far above 1.0, a page 0.0
\* and a page in between
C18_Witness ==
    /\ Scored
    /\ sim_input.query_keywords # <<>>
    /\ \E u, v, w \in DOMAIN sim_result.similarity_scores :
          LET sc == sim_result.similarity_scores
          IN  /\ sc[u].num = sc[u].den
              /\ DataOf(sim_input.crawled_data, u) = Dense
              /\ sc[v].num = 0
              /\ sc[w].num > 0
              /\ sc[w].num < sc[w].den

\* the place of a URL in the insertion order of crawled_data
PlaceOf(crawled_data, url) ==
    CHOOSE i \in 1..Len(crawled_data) : crawled_data[i].url = url

\* C19: the filter output holds exactly the pages whose score is >= the
\* threshold, each once with its score and data, in descending order of score,
\* equal scores in the insertion order of the input; threshold 0.0 keeps every
\* page and threshold 1.0 keeps only scores of 1.0.
C19_FilterExactSortedStable ==
    Scored =>
        LET c == sim_input.crawled_data
            sc == sim_result.similarity_scores
            f == sim_result.filtered_data
            th == similarity_threshold
        IN  /\ {f[i].url : i \in 1..Len(f)} = {u \in UrlsOf(c) : GEq(sc[u], th)}
            /\ \A i \in 1..Len(f) :
                  /\ f[i].similarity_score = sc[f[i].url]
                  /\ f[i].data = DataOf(c, f[i].url)
            /\ \A i, j \in 1..Len(f) :
                  i < j =>
                    /\ f[i].url # f[j].url
                    /\ GEq(f[i].similarity_score, f[j].similarity_score)
                    /\ (Eq(f[i].similarity_score, f[j].similarity_score) =>
                           PlaceOf(c, f[i].url) < PlaceOf(c, f[j].url))
            /\ (Eq(th, Frac(0, 1)) => Len(f) = Len(c))
            /\ (Eq(th, Frac(1, 1)) =>
                   \A i \in 1..Len(f) :
                       f[i].similarity_score.num = f[i].similarity_score.den)

\* two pages of equal score were kept in their input order in front of a page
\* of lower score that stood between them in the input
C19_Witness ==
    /\ Scored
    /\ LET f == sim_result.filtered_data
       IN  /\ Len(f) = 3
           /\ f[1].url = A1
           /\ f[2].url = A3
           /\ f[3].url = A2
           /\ Eq(f[1].similarity_score, f[2].similarity_score)
           /\ ~Eq(f[2].similarity_score, f[3].similarity_score)

\* C20 as stated: a second run of the scorer on the same pages, keywords and
\* threshold returns the same scores and the same filtered order.
C20_RerunIdentical ==
    (sim_calls >= 2 /\ sim_prev_input = sim_input) => sim_prev = sim_result


\* C12: with an empty keyword list, OrchestratorAgent.execute and
\* run_research_workflow both reject the run with an explicit error, and no
\* HTTP request is ever issued by the run
C12_EmptyKeywordsRejected ==
    (entry \in {"workflow", "orchestrator"} /\ in_query = <<>>)
        => /\ gets = 0
           /\ pipe_pc = "done" => ~pipe_result.success

\* the crawl of this run has returned and the pipeline has ended
RanToEnd == pipe_pc = "done" /\ runs = 1 /\ status = "returned"

\* the crawl retained no page, or no retained page reached the threshold
NothingPassed ==
    IF st_crawled_data = <<>> THEN TRUE ELSE st_filtered_data = <<>>

\* C13: when the crawl ran and retained no page, or no retained page reached
\* the similarity threshold, both entry points report success with an empty
\* list of groups
C13_NothingPassedIsSuccess ==
    (RanToEnd /\ NothingPassed)
        => (pipe_result.success /\ pipe_result.total_groups = 0)

\* C14: when at least one crawled page passes the similarity threshold,
\* run_research_workflow ends with success true and a report_path that is
\* not None
C14_WorkflowSucceeds ==
    (entry = "workflow" /\ RanToEnd /\ ~NothingPassed)
        => (pipe_result.success /\ pipe_result.report_path # None)

\* no token of the query (a keyword or a description word of two or more
\* characters) occurs in the title or the content of the page
NoQueryToken(data, query_keywords) ==
    \A w \in all_keywords_set(query_keywords) : doc_text_count(data, w) = 0

\* the gate score _calculate_keyword_relevance gives the page for the keywords
\* of the query
GateScore(data, query_keywords) ==
    calculate_keyword_relevance(data, keywords_of(query_keywords))

\* C21 as stated: a page whose title and body hold no query token scores 0 in
\* the crawl-time gate and 0 in the lexical scorer, whatever the query
C21_ZeroTokensZeroScores ==
    Scored =>
        \A u \in DOMAIN sim_result.similarity_scores :
            LET data == DataOf(sim_input.crawled_data, u)
            IN  NoQueryToken(data, sim_input.query_keywords) =>
                  /\ GateScore(data, sim_input.query_keywords).num = 0
                  /\ sim_result.similarity_scores[u].num = 0

\* C21: a page whose title and body hold no query token scores 0 in the
\* lexical scorer, and 0 in the crawl-time gate when the keyword list is not
\* empty; with an empty keyword list the gate scores every page 1.0
C21_ZeroTokensZeroScoresNonEmptyQuery ==
    Scored =>
        \A u \in DOMAIN sim_result.similarity_scores :
            LET data == DataOf(sim_input.crawled_data, u)
                query == sim_input.query_keywords
                gate == GateScore(data, query)
            IN  NoQueryToken(data, query) =>
                  /\ sim_result.similarity_scores[u].num = 0
                  /\ IF query = <<>> THEN gate.num = gate.den
                     ELSE gate.num = 0

C21_Witness ==
    /\ Scored
    /\ sim_input.query_keywords # <<>>
    /\ \E u, v \in DOMAIN sim_result.similarity_scores :
          LET c == sim_input.crawled_data
              query == sim_input.query_keywords
          IN  /\ DataOf(c, u).n_words > 0
              /\ NoQueryToken(DataOf(c, u), query)
              /\ sim_result.similarity_scores[u].num = 0
              /\ GateScore(DataOf(c, u), query).num = 0
              /\ ~NoQueryToken(DataOf(c, v), query)
              /\ sim_result.similarity_scores[v].num > 0
              /\ GateScore(DataOf(c, v), query).num > 0

\* SummarizationAgent.execute has returned the groups of a filtered set
Grouped == entry = "agents" /\ pipe_pc = "done"

\* the places (group, item) of the Grouper output
Slots(groups) ==
    UNION {{<<i, j>> : j \in 1..Len(groups[i].items)} : i \in 1..Len(groups)}

ItemAt(groups, s) == groups[s[1]].items[s[2]]

\* C22: the groups partition the filtered set: every filtered page is the item
\* of exactly one place of exactly one group, every item is a filtered page
\* with the score the filter gave it, and that score is >= the threshold.
C22_GroupsPartitionFiltered ==
    Grouped =>
        LET f == st_filtered_data
            g == st_groups
        IN  /\ \A k \in 1..Len(f) :
                  Cardinality({s \in Slots(g) : ItemAt(g, s).url = f[k].url})
                      = 1
            /\ \A s \in Slots(g) :
                  \E k \in 1..Len(f) :
                      /\ f[k].url = ItemAt(g, s).url
                      /\ f[k].similarity_score = ItemAt(g, s).similarity_score
                      /\ GEq(ItemAt(g, s).similarity_score,
                             similarity_threshold)
            /\ \A i \in 1..Len(g) : g[i].item_count = Len(g[i].items)

C22_Witness ==
    /\ Grouped
    /\ Len(st_filtered_data) >= 2
    /\ Len(st_filtered_data) < Len(st_crawled_data)
    /\ Len(st_groups) >= 2
    /\ \E i \in 1..Len(st_groups) : st_groups[i].keyword = OtherBucket

\* twice the match score of section 4.6 of a page for the i-th keyword: the
\* occurrences of the keyword count 2, those of every description word of
\* three or more characters count 1
MatchScore(data, query_keywords, i) ==
    LET desc == query_keywords[i].description
        long == {j \in 1..Len(desc) : TokenLen(Lower(desc[j])) >= 3}
        n(w) == data.title[w] + data.content[w]
        occ == [j \in 1..Len(desc) |-> IF j \in long THEN n(Lower(desc[j]))
                                       ELSE 0]
    IN  2 * n(Lower(query_keywords[i].keyword)) + SumSeq(occ)

\* the keyword of the group that holds the page of this URL
GroupOf(groups, url) ==
    groups[(CHOOSE s \in Slots(groups) : ItemAt(groups, s).url = url)[1]].keyword

\* C23: a page is in the group of the keyword of the strictly highest match
\* score, the first such keyword in input order when several share it; a page
\* every keyword scores 0 for is in the unmatched group.
C23_BestKeywordFirstWins ==
    Grouped =>
        \A k \in 1..Len(st_filtered_data) :
            LET q == in_query
                data == st_filtered_data[k].data
                label == GroupOf(st_groups, st_filtered_data[k].url)
                score(i) == MatchScore(data, q, i)
            IN  IF \A i \in 1..Len(q) : score(i) = 0
                THEN label = OtherBucket
                ELSE \E i \in 1..Len(q) :
                        /\ label = q[i].keyword
                        /\ \A j \in 1..Len(q) : score(j) <= score(i)
                        /\ \A j \in 1..(i - 1) : score(j) < score(i)

C23_Witness ==
    /\ Grouped
    /\ Len(in_query) = 2
    /\ LET q == in_query
           f == st_filtered_data
           label(k) == GroupOf(st_groups, f[k].url)
           score(k, i) == MatchScore(f[k].data, q, i)
           count(k, i) == doc_text_count(f[k].data, Lower(q[i].keyword))
       IN  /\ \E k \in 1..Len(f) :
                 /\ score(k, 1) = score(k, 2)
                 /\ score(k, 1) > 0
                 /\ label(k) = q[1].keyword
           /\ \E k \in 1..Len(f) :
                 /\ count(k, 1) < count(k, 2)
                 /\ score(k, 1) > score(k, 2)
                 /\ label(k) = q[1].keyword
           /\ \E k \in 1..Len(f) :
                 /\ score(k, 1) < score(k, 2)
                 /\ label(k) = q[2].keyword
           /\ \E k \in 1..Len(f) : label(k) = OtherBucket

\* the place in the filtered set of the first page that went to this group
FirstPlace(groups, label) ==
    CHOOSE k \in 1..Len(st_filtered_data) :
        /\ GroupOf(groups, st_filtered_data[k].url) = label
        /\ \A j \in 1..(k - 1) :
              GroupOf(groups, st_filtered_data[j].url) # label

\* C24: the items of every group are in descending order of similarity score;
\* the groups are in descending order of item count, groups of equal count in
\* the order in which their first page stands in the filtered set.
C24_ItemsAndGroupsOrdered ==
    Grouped =>
        LET g == st_groups
        IN  /\ \A i \in 1..Len(g) :
                  \A a, b \in 1..Len(g[i].items) :
                      a < b => GEq(g[i].items[a].similarity_score,
                                   g[i].items[b].similarity_score)
            /\ \A a, b \in 1..Len(g) :
                  a < b =>
                    /\ g[a].item_count >= g[b].item_count
                    /\ g[a].keyword # g[b].keyword
                    /\ g[a].item_count = g[b].item_count =>
                          FirstPlace(g, g[a].keyword)
                              < FirstPlace(g, g[b].keyword)

\* two keywords, the second best for two pages and the first for one page
\* that stands before them, and a third group as large as the smaller one
C24_Witness ==
    /\ Grouped
    /\ Len(in_query) = 2
    /\ Len(st_groups) = 3
    /\ st_groups[1].keyword = in_query[1].keyword
    /\ st_groups[1].item_count = 2
    /\ st_groups[2].keyword = in_query[2].keyword
    /\ st_groups[2].item_count = 1
    /\ st_groups[3].item_count = 1
    /\ FirstPlace(st_groups, st_groups[2].keyword) = 1

\* C25: a record of the result mapping is never overwritten, changed or
\* removed by any step of the pipeline, the similarity filter and the grouping
\* included; the crawler reaches the gate of a URL only while the mapping has
\* no record of it, so a record is inserted at most once; the items of the
\* filter carry the record as the crawler made it.
C25_RecordsNeverChange ==
    [][/\ \A u \in DOMAIN results :
             u \in DOMAIN results' /\ results'[u] = results[u]
       /\ (stack # <<>> /\ Top.pc = "parse") => Top.url \notin DOMAIN results
       /\ (pipe_pc' \in {"summarization", "report"}
             /\ status' = "returned" /\ st_filtered_data' # None) =>
             \A k \in 1..Len(st_filtered_data') :
                 /\ st_filtered_data'[k].url \in DOMAIN results'
                 /\ st_filtered_data'[k].data
                        = results'[st_filtered_data'[k].url]
      ]_all_vars

C25_Witness ==
    /\ entry = "orchestrator"
    /\ pipe_pc = "done"
    /\ pipe_result.success
    /\ Cardinality(DOMAIN results) = 2
    /\ Len(st_filtered_data) = 1
    /\ Len(st_groups) = 1
    /\ gets > 2

\* the innermost frame is about to issue a GET
AboutToFetch == status = "running" /\ stack # <<>> /\ Top.pc = "fetch"

\* the crawl takes a step that issues no GET and leaves the walk with the
\* records collected so far
StopsHere ==
    /\ Next
    /\ gets' = gets
    /\ results' = results
    /\ Len(stack') < Len(stack)

\* C26: before each fetch the crawl checks a cancellation signal, so whenever
\* a frame is about to issue a GET the crawl can instead be stopped with the
\* records collected so far.
C26_CancellableBeforeFetch == AboutToFetch => ENABLED StopsHere

\* this step issued a GET that was answered with this HTTP status
Fetched(code) ==
    /\ AboutToFetch
    /\ gets' = gets + 1
    /\ got'.kind = "http"
    /\ got'.code = code

\* this attempt is not the last of max_retries
MoreAttempts == Top.attempt < max_retries - 1

\* the fetch returns None and the node is skipped
GivesUp == event' = "fetch_none" /\ stack' = Tail(stack)

\* the fetch goes to its next attempt after a backoff of secs seconds
RetriesAfter(secs) ==
    /\ event' = "fetch_retry"
    /\ slept' = [kind |-> "backoff", secs |-> secs]
    /\ stack' = <<[Top EXCEPT !.attempt = @ + 1]>> \o Tail(stack)

SameIdentity == current_ua_index' = current_ua_index

\* C27: an HTTP error status other than 403, 429 and 5xx is never retried:
\* the GET that receives it is the only one, no backoff sleep and no
\* user-agent rotation follow, and the fetch gives up.
C27_OtherStatusNotRetried ==
    [][\A code \in Statuses :
          (code >= 400 /\ code < 500 /\ code \notin {403, 429}
              /\ Fetched(code)) =>
             /\ Top.attempt = 0
             /\ GivesUp
             /\ slept' = NoSleep
             /\ SameIdentity
      ]_vars

\* C28: a 429 keeps the user-agent index; before the next attempt the fetch
\* sleeps 5*(attempt+1) seconds; a 429 on the last attempt gives up, the node
\* is skipped and the walk goes on.
C28_RateLimitedSameIdentity ==
    [][Fetched(429) =>
          /\ SameIdentity
          /\ status' = "running"
          /\ IF MoreAttempts THEN RetriesAfter(5 * (Top.attempt + 1))
             ELSE GivesUp
      ]_vars

\* C29: every status 500..599 keeps the user-agent index and is retried after
\* 3*(attempt+1) seconds; the fetch gives up on the last attempt only.
C29_ServerErrorRetried ==
    [][\A code \in Statuses :
          (code >= 500 /\ code <= 599 /\ Fetched(code)) =>
             /\ SameIdentity
             /\ IF MoreAttempts THEN RetriesAfter(3 * (Top.attempt + 1))
                ELSE GivesUp
      ]_vars

\* C30: a 403 on an attempt that is not the last moves the user-agent index to
\* (index + 1) modulo the pool size, sleeps 2*(attempt+1) seconds and retries;
\* a 403 on the last attempt gives up and leaves the index; a 200 on a later
\* attempt returns the response.
C30_ForbiddenRotates ==
    [][/\ Fetched(403) =>
             IF MoreAttempts
             THEN /\ current_ua_index' = (current_ua_index + 1) % NumUserAgents
                  /\ RetriesAfter(2 * (Top.attempt + 1))
             ELSE GivesUp /\ SameIdentity
       /\ Fetched(200) =>
             /\ event' = "fetch_response"
             /\ Head(stack').pc = "parse"
             /\ SameIdentity
             /\ slept' = NoSleep
      ]_vars

\* a 403 on the first attempt has rotated the identity and the retry is due
C30_Witness ==
    /\ AboutToFetch
    /\ event = "fetch_retry"
    /\ got.kind = "http"
    /\ got.code = 403
    /\ Top.attempt = 1
    /\ current_ua_index = 1
    /\ slept = [kind |-> "backoff", secs |-> 2]

\* this step issued a GET that raised this exception
Raised(kind) ==
    /\ AboutToFetch
    /\ gets' = gets + 1
    /\ got'.kind = kind

\* C31: an SSL error, a timeout and a connection error keep the user-agent
\* index; on an attempt that is not the last the fetch sleeps 2, 2 and 3
\* seconds and retries, on the last attempt it gives up without a sleep.
C31_TransportErrorsFixedSleep ==
    [][\A kind \in {"SSLError", "Timeout", "ConnectionError"} :
          Raised(kind) =>
             /\ SameIdentity
             /\ IF MoreAttempts
                THEN RetriesAfter(IF kind = "ConnectionError" THEN 3 ELSE 2)
                ELSE GivesUp /\ slept' = NoSleep
      ]_vars

\* the second attempt has ended in a connection error and a third is due
C31_Witness ==
    /\ AboutToFetch
    /\ event = "fetch_retry"
    /\ got.kind = "ConnectionError"
    /\ Top.attempt = 2
    /\ slept = [kind |-> "backoff", secs |-> 3]

\* C32: every URL a frame fetches is in the visited set before its first GET,
\* and within one execute call _fetch_with_retry is called at most once per
\* URL, however often links lead to it.
C32_VisitedBeforeFetchOncePerUrl ==
    /\ \A f \in Frames : f.url \in visited_urls
    /\ \A u \in URLS :
          /\ fetch_calls[u] <= 1
          /\ fetch_calls[u] = 1 => u \in visited_urls

\* a link led back to a page fetched before and the call returned at once
C32_Witness ==
    /\ runs = 1
    /\ event = "follow"
    /\ stack # <<>>
    /\ Top.pc = "links"
    /\ Cardinality(visited_urls) < max_pages
    /\ FetchCallsTotal >= 2
    /\ FetchCallsTotal = Cardinality(visited_urls)

SeedsStarted == {urls[i] : i \in 1..(seedIdx - 1)}

\* C33: the links of a processed page are taken up exactly when its depth is
\* below max_depth, whether or not the page was stored: the depth of a frame
\* is its nesting level, only a frame below max_depth ever iterates links, a
\* processed page at max_depth returns without following any link, and with
\* max_depth = 0 only seeds are fetched, each at most once, and a first
\* execute call stores no more records than seeds were started.
C33_ExpandsBelowMaxDepthOnly ==
    /\ [](/\ \A i \in 1..Len(stack) : stack[i].depth = Len(stack) - i
          /\ \A f \in Frames : f.depth <= max_depth
          /\ \A f \in Frames : f.pc = "links" => f.depth < max_depth
          /\ (max_depth = 0 /\ status = "running") =>
                /\ Len(stack) <= 1
                /\ \A u \in URLS : fetch_calls[u] > 0 => u \in SeedsStarted
                /\ FetchCallsTotal <= seedIdx - 1
                /\ runs = 1 => DOMAIN results \subseteq SeedsStarted)
    /\ [][(stack # <<>> /\ Top.pc = "parse" /\ event' = "processed") =>
            IF Top.depth < max_depth
            THEN /\ Len(stack') = Len(stack)
                 /\ Head(stack').pc = "links"
                 /\ Head(stack').url = Top.url
            ELSE stack' = Tail(stack)]_vars

\* the page of a link is being parsed although the page that linked to it,
\* fetched below max_depth, was not stored
C33_Witness ==
    /\ runs = 1
    /\ Len(stack) >= 2
    /\ Top.pc = "parse"
    /\ stack[2].pc = "links"
    /\ stack[2].depth < max_depth
    /\ stack[2].url \notin DOMAIN results
    /\ keywords # <<>>

\* C34: a sleep of `delay` seconds precedes every recursive descent: the step
\* that makes the call _crawl_recursive(link, keywords, depth + 1) sleeps
\* `delay` once, every frame at depth >= 1 that is about to make its first GET
\* was entered by such a step, and no GET attempt, retry or other step
\* performs a delay sleep.
C34_DelayOncePerDescent ==
    /\ []((stack # <<>> /\ Top.depth >= 1 /\ Top.pc = "fetch"
                        /\ Top.attempt = 0) =>
             (slept = [kind |-> "delay", secs |-> delay] /\ event = "follow"))
    /\ [][/\ (stack' # <<>> /\ Len(stack') > Len(stack)
                            /\ Head(stack').depth >= 1) =>
                slept' = [kind |-> "delay", secs |-> delay]
          /\ slept'.kind = "delay" =>
                /\ stack # <<>> /\ Top.pc = "links"
                /\ event' = "follow"
                /\ gets' = gets
                /\ \E link \in Top.links :
                      stack'[Len(stack') - Len(stack) + 1].links
                         = Top.links \ {link}
          /\ gets' = gets + 1 => slept'.kind # "delay"]_vars

\* after a retried fetch of a linked page, the fetch is at its third attempt
\* and the only delay sleep of that descent is long past
C34_Witness ==
    /\ stack # <<>>
    /\ Top.depth >= 1
    /\ Top.pc = "fetch"
    /\ Top.attempt = 2
    /\ slept.kind = "backoff"
    /\ event = "fetch_retry"

\* C35: the walk is depth-first in seed order with one thread of control: only
\* the innermost call fetches or parses while every caller waits in its link
\* loop, a caller's frame does not change and is not left before the calls
\* above it have returned, each GET is made by the innermost call, and the
\* next seed is taken, in list order, only when the walk of the previous seed
\* has returned.
C35_DepthFirstSeedOrder ==
    /\ [](\A i \in 2..Len(stack) : stack[i].pc = "links")
    /\ [][/\ \A i \in 2..Len(stack) :
                /\ Len(stack') >= Len(stack) - 1
                /\ stack'[i + Len(stack') - Len(stack)] = stack[i]
          /\ Len(stack') <= Len(stack) + 1
          /\ gets' = gets + 1 =>
                /\ stack # <<>>
                /\ stack[1].pc = "fetch"
                /\ fetch_calls'[stack[1].url] >= 1
                /\ \A u \in URLS \ {stack[1].url} :
                      fetch_calls'[u] = fetch_calls[u]
          /\ (seedIdx' # seedIdx /\ status = "running" /\ status' = "running") =>
                /\ stack = <<>>
                /\ seedIdx' = seedIdx + 1
                /\ \A f \in {stack'[i] : i \in 1..Len(stack')} :
                      f.url = urls[seedIdx] /\ f.depth = 0]_vars

\* a linked page is being fetched two levels below a seed while its parent
\* and the seed still have links to iterate
C35_Witness ==
    /\ Len(stack) = 3
    /\ stack[1].pc = "fetch"
    /\ stack[2].links # {}
    /\ stack[3].links # {}
    /\ seedIdx <= Len(urls)

\* the gate score in which a title occurrence counts twice and a body
\* occurrence once
TitleTwiceScore(rec, kws) ==
    LET total == SumSeq([i \in 1..Len(kws) |->
                            2 * rec.title[Lower(kws[i])]
                              + rec.content[Lower(kws[i])]])
        max_possible == MaxPossiblePerKeyword * Len(kws)
    IN  Frac(Min(total, max_possible), max_possible)

\* C36: in the gate an occurrence of a keyword in the title weighs exactly
\* twice an occurrence in the body: the relevance stored by a first execute
\* call with keywords is min(1, sum of 2*titleOccurrences + bodyOccurrences
\* over the keywords, divided by 10 * |keywords|).
C36_TitleWeighsTwice ==
    (runs = 1 /\ keywords # <<>>) =>
        \A u \in DOMAIN results :
            Eq(results[u].relevance, TitleTwiceScore(results[u], keywords))

\* the same-host links of the page the server holds at u, its pages being fixed
LinksOf(u) == extract_links(CHOOSE h \in web[u] : TRUE, u)

\* the URLs a chain of at most k same-host links leads to from a well-formed seed
RECURSIVE Reach(_)
Reach(k) ==
    IF k = 0
    THEN {urls[i] : i \in {j \in 1..Len(urls) : is_valid_url(urls[j])}}
    ELSE LET r == Reach(k - 1)
         IN  r \cup UNION {LinksOf(u) : u \in r}

CrawlOver == status = "running" /\ stack = <<>> /\ seedIdx > Len(urls)

\* a first execute call in which no page was given up or raised and the page
\* budget is not reached
NothingLost ==
    /\ runs = 1
    /\ skipped = 0
    /\ Cardinality(visited_urls) < max_pages

StageRank(pc) ==
    CASE pc = "idle" -> 0
      [] pc = "web_crawler" -> 1
      [] pc = "similarity" -> 2
      [] pc = "summarization" -> 3
      [] pc = "report" -> 4
      [] OTHER -> 5

\* C38: OrchestratorAgent.execute runs crawl, similarity, summarization and
\* report in this order, each at most once: the crawler is called only at the
\* start, the similarity agent only on a successful crawl result, the later
\* stages only after the success of the stage before, nothing runs after the
\* return, a failed stage is followed by the return alone, and success = true
\* is returned only after the report stage with all four results successful.
C38_StagesInOrderStopAtFirstFailure ==
    /\ [](entry = "orchestrator" =>
            /\ runs <= 1
            /\ sim_calls <= 1
            /\ (pipe_pc = "done" /\ pipe_result.success) =>
                  /\ runs = 1 /\ status = "returned" /\ result.success
                  /\ sim_calls = 1 /\ sim_result.success
                  /\ pipe_result.total_groups = Len(st_groups)
                  /\ pipe_result.report_path = st_report_path
                  /\ st_report_path # None)
    /\ [][entry' = "orchestrator" =>
            /\ pipe_pc # "done"
            /\ runs' # runs => (entry = "none" /\ pipe_pc' = "web_crawler")
            /\ pipe_pc' # pipe_pc => StageRank(pipe_pc') > StageRank(pipe_pc)
            /\ sim_calls' # sim_calls =>
                  /\ pipe_pc = "web_crawler"
                  /\ status = "returned" /\ result.success
                  /\ sim_calls' = sim_calls + 1
            /\ (pipe_pc = "web_crawler" /\ pipe_pc' # pipe_pc) =>
                  /\ pipe_pc' \in {"summarization", "done"}
                  /\ pipe_pc' = "summarization" =>
                        (sim_calls' = 1 /\ sim_result'.success)
                  /\ pipe_pc' = "done" =>
                        /\ ~pipe_result'.success
                        /\ UNCHANGED <<st_groups, st_report_path>>
            /\ (pipe_pc = "summarization" /\ pipe_pc' # pipe_pc) =>
                  /\ pipe_pc' \in {"report", "done"}
                  /\ sim_calls' = sim_calls
                  /\ pipe_pc' = "done" =>
                        /\ ~pipe_result'.success
                        /\ UNCHANGED <<st_groups, st_report_path>>
            /\ (pipe_pc = "report" /\ pipe_pc' # pipe_pc) =>
                  /\ pipe_pc' = "done"
                  /\ UNCHANGED <<st_groups, sim_calls>>
                  /\ pipe_result'.success = (st_report_path' # None)
            /\ (pipe_pc' = "done" /\ pipe_result'.success) =>
                  pipe_pc = "report"]_all_vars

\* the orchestrator has returned failure from the summarization stage after a
\* successful crawl and a successful similarity stage; no report was made
C38_Witness ==
    /\ entry = "orchestrator"
    /\ pipe_pc = "done"
    /\ ~pipe_result.success
    /\ pipe_result.error = "Summarization failed"
    /\ runs = 1 /\ result.success
    /\ sim_calls = 1 /\ sim_result.success
    /\ st_report_path = None

BudgetReached == Cardinality(visited_urls) >= max_pages

\* C39 as stated: once the visited set has reached max_pages, no step of the
\* execute call makes a GET or a delay sleep.
C39_NoGetAfterBudget ==
    [][BudgetReached => (gets' = gets /\ slept'.kind # "delay")]_vars

\* C39: once the visited set has reached max_pages, no URL is added to it, no
\* call of _crawl_recursive gets past its early return, for a link or for a
\* later seed, and no delay sleep is performed; the only GETs still made are
\* the attempts for the URL whose insertion filled the set, whose frame is
\* the innermost one from the step that inserted it.
C39_OnlyLastUrlFetchedAfterBudget ==
    [][/\ BudgetReached =>
            /\ visited_urls' = visited_urls
            /\ Len(stack') <= Len(stack)
            /\ slept'.kind # "delay"
            /\ \A u \in URLS :
                  fetch_calls'[u] > fetch_calls[u] =>
                      (stack # <<>> /\ Top.url = u /\ Top.pc = "fetch"
                                    /\ runs' = runs)
            /\ gets' = gets + 1 => (stack # <<>> /\ Top.pc = "fetch")
       /\ (~BudgetReached /\ Cardinality(visited_urls') >= max_pages) =>
            /\ stack' # <<>>
            /\ Head(stack').pc = "fetch"
            /\ visited_urls' = visited_urls \cup {Head(stack').url}
            /\ fetch_calls'[Head(stack').url] = 0]_vars

\* with the budget used up a link has just been passed over without a sleep
\* while a seed is still to come
C39_Witness ==
    /\ BudgetReached
    /\ event = "skip_link"
    /\ slept = NoSleep
    /\ status = "running"
    /\ seedIdx <= Len(urls)
    /\ gets >= max_pages

\* C40: every URL that is a key of the result mapping is in the visited set,
\* so there are never more records than visited URLs nor than max_pages.
C40_ResultsWithinVisited ==
    /\ DOMAIN results \subseteq visited_urls
    /\ Cardinality(DOMAIN results) <= Cardinality(visited_urls)
    /\ Cardinality(DOMAIN results) <= max_pages

\* the budget is used up, every visited page but one was stored, and the crawl
\* goes on
C40_Witness ==
    /\ status = "running"
    /\ runs = 1
    /\ Cardinality(visited_urls) = max_pages
    /\ Cardinality(DOMAIN results) = max_pages - 1
    /\ Cardinality(DOMAIN results) >= 1
    /\ event = "processed"

====
